---- MODULE Spec2Model ----
(***************************************************************************)
(* Scheduler / worker job state machine of the vm module                   *)
(* (node/src/vm/scheduler.rs, worker.rs, job.rs, workspace.rs, doc.rs).    *)
(*                                                                         *)
(* One job id is followed through a workspace of nodes.  Node 0 is the     *)
(* node that schedules the job; every node (node 0 included) runs a worker *)
(* whose author id is the node's id.  All keys a handler reads are keys    *)
(* written by its own author (Query::author(self.author_id)), so the       *)
(* replicated document is modelled by the authored key sets plus the       *)
(* insert events each node's event loop still has to handle.               *)
(*                                                                         *)
(* The second part is the event store of one space (node/src/space.rs,     *)
(* space/events.rs, db.rs, sync.rs and the typed stores): the events       *)
(* table, the typed writes and reads over it, blob ingest, the merge of an *)
(* imported space and the gossip tasks.  SpaceSpec runs these actions.     *)
(*                                                                         *)
(* The third part is the named blobs and the content routing of a          *)
(* workspace (node/src/worker/blobs.rs, vm/content_routing.rs): put_bytes, *)
(* the provider announcements and the autofetch tasks.  BlobSpec runs      *)
(* these actions under the fairness of the event loops and spawned tasks.  *)
(*                                                                         *)
(* AssignSpec follows Worker::handle_job_assignment one await at a time,   *)
(* with the assignment event delivered to a node any number of times up to *)
(* MaxDeliveries and one spawned task per delivery.                        *)
(*                                                                         *)
(* HostSpec runs the calls on the files of Accounts and Spaces             *)
(* (node/src/accounts.rs, space.rs).  RelaySpec adds a third peer to the   *)
(* workspace document and follows a worker's Requested marker from replica *)
(* to replica, each node's scheduler handling the insert it is sent        *)
(* (vm/doc.rs subscribe).  FlowSpec follows one task of a flow through     *)
(* Task::run (node/src/worker/flow.rs), time counted in polling intervals. *)
(***************************************************************************)
EXTENDS Integers, Sequences, FiniteSets, TLC

\* ---- bounds ----
NumRemoteWorkers == 1
MaxCancels == 2

Workers == 0..NumRemoteWorkers
SchedulerNode == 0
None == 0 - 1

\* ---- JobStatus (job.rs) ----
Scheduling == [tag |-> "Scheduling", id |-> None]
Assigned(w) == [tag |-> "Assigned", id |-> w]
Completed(w) == [tag |-> "Completed", id |-> w]
Canceled(x) == [tag |-> "Canceled", id |-> x]

JobStatus ==
    {Scheduling} \cup {Assigned(w) : w \in Workers} \cup {Completed(w) : w \in Workers}
        \cup {Canceled(x) : x \in Workers \cup {None}}

\* impl Display for JobStatus: the status token of a jobs/status/<id>/<token> key
Display(s) ==
    CASE s.tag = "Scheduling" -> <<"scheduling">>
      [] s.tag = "Assigned" -> <<"assigned-", s.id>>
      [] s.tag = "Completed" -> <<"completed-", s.id>>
      [] s.tag = "Canceled" /\ s.id # None -> <<"canceled-", s.id>>
      [] OTHER -> <<"canceled">>

StatusTokens == {Display(s) : s \in JobStatus}

\* impl FromStr for JobStatus
FromStr(t) ==
    IF t = <<"scheduling">> THEN Scheduling
    ELSE IF t[1] = "assigned-" THEN Assigned(t[2])
    ELSE IF t[1] = "completed-" THEN Completed(t[2])
    ELSE IF t[1] = "canceled-" THEN Canceled(t[2])
    ELSE Canceled(None)

\* JobStatus::merge: the new value of *self and the `replaced` flag
merge(self, other) ==
    IF self.tag = "Scheduling" /\ other.tag = "Assigned" THEN [status |-> other, replaced |-> TRUE]
    ELSE IF self.tag = "Assigned" /\ other.tag = "Completed"
        THEN IF self.id = other.id THEN [status |-> other, replaced |-> TRUE]
             ELSE [status |-> self, replaced |-> FALSE]
    ELSE [status |-> self, replaced |-> FALSE]

\* ---- job blobs ----
\* A ScheduledJob blob differs from another of the same job only in its result
\* slot (JobResult {worker, status}); a blob hash is identified with that content.
JobResultStatus == {"Unknown", "Ok", "Err", "ErrTimeout"}
JobResult(w, st) == [worker |-> w, status |-> st]
DefaultResult == JobResult(None, "Unknown")
Absent == JobResult(None, "absent")
Hashes == {DefaultResult} \cup {JobResult(w, st) : w \in Workers, st \in JobResultStatus \ {"Unknown"}}

JobTypes == {"Docker", "Wasm"}

\* ---- ExecutionStatus (worker.rs) ----
ExecKeys == {"Requested", "Skipped", "Running", "Completed"}

VARIABLES
    jobMarkers,     \* jobs/status/<id>/<token> keys of the scheduler: token -> blob hash
    assignKeys,     \* jobs/assign/<id>/<worker> keys: worker -> blob hash
    execMarkers,    \* worker/status/<id>/<status> keys of each worker
    inbox0,         \* node 0: InsertLocal events not yet handled, in insertion order
    chan,           \* node 0: InsertRemote events not yet handled, per authoring worker
    schedLog,       \* the scheduler's inserts, in the order written
    pos,            \* per node: how many of the scheduler's inserts its event loop handled
    schedPending,   \* node 0 event loop: write decided by handle_worker_execution_status_change
    statusTasks,    \* per worker: spawned handle_job_status_change tasks (by job hash)
    running,        \* per worker: blob hash of the job it is executing, or Absent
    current_jobs,   \* per worker: the job id is in the guard set
    timedOut,       \* per worker: tokio::time::timeout elapsed on its execution of the job
    enabled,        \* per worker: Worker::enabled
    docker,         \* per worker: Executors::docker.is_some()
    jobType,        \* the job's JobType
    waiterPc,       \* run_job_and_wait: "new", "subscribed", "waiting", "done"
    waiterWorker,   \* run_job_and_wait: worker_id
    waiterPos,      \* run_job_and_wait: number of broadcast messages received
    waiterResult,   \* what run_job_and_wait returned
    statusLog,      \* the (job_id, status) messages broadcast on job_subscriptions
    cancelPending,  \* cancel_job between its get_job and its write
    cancelCount,    \* number of cancel_job calls made
    lastCancel      \* the last cancel_job call: was the job closed at the call, the outcome

vmVars == <<jobMarkers, assignKeys, execMarkers, inbox0, chan, schedLog, pos, schedPending, statusTasks,
          running, current_jobs, timedOut, enabled, docker, jobType,
          waiterPc, waiterWorker, waiterPos, waiterResult, statusLog,
          cancelPending, cancelCount, lastCancel>>

\* ---- the event store of one space (node/src/space.rs, node/src/space/*.rs) ----
VARIABLES
    events,         \* rows of the space's events table, in rowid order
    clock,          \* chrono::Utc::now().timestamp()
    sync,           \* Space::sync is Some
    gossipSent,     \* Command::BroadcastNeighbors payloads the gossip sink was sent
    lastCall        \* the last call made on the space and its outcome

spaceVars == <<events, clock, sync, gossipSent, lastCall>>

\* ---- named blobs and content routing (node/src/worker/blobs.rs, ----
\* ---- node/src/vm/content_routing.rs, node/src/vm/doc.rs)        ----
VARIABLES
    opened,         \* the nodes whose workspace is open (VM::create, VM::join)
    autofetch,      \* each node's WorkspaceConfig::autofetch
    store,          \* the hashes whose content each node's blob store holds
    replica,        \* each node's replica of the document: the blobs/ and providers/ entries
    net,            \* entries on their way to a node's replica
    pending,        \* the providers/ insert events each node's event loop still has to handle
    tasks,          \* the autofetch tasks each node has spawned
    putPc,          \* the put_bytes call each node is in, or the last one that returned
    puts            \* number of put_bytes calls made

blobVars == <<opened, autofetch, store, replica, net, pending, tasks, putPc, puts>>

\* ---- the handle_job_assignment tasks of a worker (node/src/vm/worker.rs) ----
VARIABLES
    assignTasks,    \* per worker: the handle_job_assignment tasks spawned, in spawn order
    executions      \* per worker: how many times execute_job was started for the job

taskVars == <<assignTasks, executions>>

\* ---- the node's files (node/src/accounts.rs, node/src/space.rs Spaces) ----
VARIABLES
    files,          \* the files under the repo path: path -> content
    inner,          \* Accounts::inner, or NotOpen
    spaces,         \* Spaces::spaces, the ids of the open spaces, or NotOpen
    fresh,          \* how many ids Uuid::new_v4 has given out
    lastReg         \* the last call on Accounts or Spaces and its outcome

\* ---- a worker marker on its way through the peers (node/src/vm/doc.rs subscribe) ----
VARIABLES
    copies,         \* per peer: the authors whose Requested marker it was sent
    liveEvents,     \* per peer: the worker inserts of its subscription, oldest first
    peerKeys        \* per peer other than node 0: the job keys its scheduler wrote

relayVars == <<copies, liveEvents, peerKeys>>

\* ---- a task of a flow (node/src/worker/flow.rs Task::run) ----
VARIABLES
    flow,           \* the task: where its future stands, the dependencies it still waits for, its output
    elapsed,        \* the time since the task was started, in polling intervals
    objects         \* the names blobs.has_object answers true for

flowVars == <<flow, elapsed, objects>>

hostVars == <<files, inner, spaces, fresh, lastReg, relayVars, flowVars>>

vars == <<vmVars, spaceVars, blobVars, taskVars, hostVars>>

\* One Space, opened by Space::open, is followed: its events table, the calls made
\* on it by the local user, the events that reach it in blobs and over gossip.
\* Blob contents are content addressed and taken to be present locally.
\* ---- bounds of the event store ----
MaxTime == 2
MaxEvents == 2
NumDataIds == 2
NumValues == 2

Times == 1..MaxTime
DataIds == 1..NumDataIds
Values == 1..NumValues
LocalAuthor == 1
RemoteAuthor == 2

\* EventKind of events.rs, and the two kinds tables.rs and secrets.rs name
EventKind ==
    {"MutateUser", "DeleteUser", "MutateSpace", "DeleteSpace", "MutateProgram",
     "DeleteProgram", "MutateSchema", "DeleteSchema", "MutateRow", "DeleteRow",
     "MutateTable", "MutateSecret"}

\* EventKind::kind; MutateTable and MutateSecret have no number in events.rs and
\* take the next free ones
KindNumber(k) ==
    CASE k = "MutateUser" -> 100000
      [] k = "DeleteUser" -> 100001
      [] k = "MutateSpace" -> 100002
      [] k = "DeleteSpace" -> 100003
      [] k = "MutateProgram" -> 100004
      [] k = "DeleteProgram" -> 100005
      [] k = "MutateSchema" -> 100006
      [] k = "DeleteSchema" -> 100007
      [] k = "MutateRow" -> 100008
      [] k = "DeleteRow" -> 100009
      [] k = "MutateTable" -> 100010
      [] k = "MutateSecret" -> 100011

\* iroh Hash::new over the serialized value
Hash(v) == <<"hash", v>>
NoHash == <<>>
HashLink(h, v) == [hash |-> h, value |-> v]
\* blobs().read_to_bytes(hash) followed by serde_json::from_slice
Resolve(h) == h[2]

\* Tag::new
Tag(name, value) == <<name, value>>
NOSTR_SCHEMA_TAG == "sch"
NOSTR_ID_TAG == "id"

TagIndex(tags, name) == {i \in 1..Len(tags) : tags[i][1] = name}
FirstTag(tags, name) ==
    tags[CHOOSE i \in TagIndex(tags, name) : \A j \in TagIndex(tags, name) : i <= j]

\* Event::schema
schema(e) ==
    IF TagIndex(e.tags, NOSTR_SCHEMA_TAG) = {} THEN NoHash
    ELSE FirstTag(e.tags, NOSTR_SCHEMA_TAG)[2]

\* Event::data_id
data_id(e) ==
    IF TagIndex(e.tags, NOSTR_ID_TAG) = {} THEN None
    ELSE FirstTag(e.tags, NOSTR_ID_TAG)[2]

\* Sha256Digest::from_data over the JSON of the tuple: an injective numbering of
\* the tuples, whose numeric order stands for the lexicographic order of digests
Sha256Digest(data) ==
    LET tags == data[5]
        sch == IF TagIndex(tags, NOSTR_SCHEMA_TAG) = {} THEN 0
               ELSE FirstTag(tags, NOSTR_SCHEMA_TAG)[2][2]
        did == IF TagIndex(tags, NOSTR_ID_TAG) = {} THEN 0
               ELSE FirstTag(tags, NOSTR_ID_TAG)[2]
        head == ((data[1] * 4 + data[2]) * (MaxTime + 2) + data[3]) * 16 + (data[4] - 100000)
        tail == (sch * (NumDataIds + 2) + did) * (NumValues + 2) + data[6][2]
    IN head * ((NumValues + 2) * (NumDataIds + 2) * (NumValues + 2)) + tail

NOSTR_EVENT_VERSION_NUMBER == 0

\* Event::nostr_id
nostr_id(pubkey, created_at, k, tags, content) ==
    Sha256Digest(<<NOSTR_EVENT_VERSION_NUMBER, pubkey, created_at, KindNumber(k), tags, content>>)

\* PublicKey::from_bytes(author.public_key().as_bytes())
PublicKey(author) == author
\* Author::sign
sign(author, msg) == [signer |-> author, msg |-> msg]

\* mutant of create: the signature is made over the content hash number
create_SignsContent(author, created_at, k, tags, content) ==
    LET pubkey == PublicKey(author)
        id == nostr_id(pubkey, created_at, k, tags, content.hash)
    IN [id |-> id, pubkey |-> pubkey, created_at |-> created_at, kind |-> k,
        tags |-> tags, sig |-> sign(author, content.hash[2]), content |-> content]

\* Event::create
create(author, created_at, k, tags, content) ==
    LET pubkey == PublicKey(author)
        id == nostr_id(pubkey, created_at, k, tags, content.hash)
    IN [id |-> id, pubkey |-> pubkey, created_at |-> created_at, kind |-> k,
        tags |-> tags, sig |-> sign(author, id), content |-> content]

\* verify of the specification: recomputes the id, then checks the signature
verify(e) ==
    IF e.id # nostr_id(e.pubkey, e.created_at, e.kind, e.tags, e.content.hash)
        THEN "IdMismatch"
    ELSE IF e.sig.signer # e.pubkey \/ e.sig.msg # e.id THEN "InvalidSignature"
    ELSE "ok"

NoEvent ==
    [id |-> None, pubkey |-> None, created_at |-> 0, kind |-> "None", tags |-> <<>>,
     sig |-> sign(None, None), content |-> HashLink(NoHash, None)]

\* ---- the events table ----
Ids(db) == {db[i].id : i \in 1..Len(db)}

\* Event::write: INSERT INTO events; id is the PRIMARY KEY and data_id is NOT NULL,
\* a violated constraint fails the statement
write(self, db) ==
    IF self.id \in Ids(db) \/ data_id(self) = None
        THEN [db |-> db, result |-> "err"]
    ELSE [db |-> Append(db, [id |-> self.id, pubkey |-> self.pubkey,
                             created_at |-> self.created_at, kind |-> self.kind,
                             schema |-> schema(self), data_id |-> data_id(self),
                             content |-> self.content.hash, sig |-> self.sig]),
          result |-> "ok"]

\* Event::from_sql_row
from_sql_row(row) ==
    [id |-> row.id, pubkey |-> row.pubkey, created_at |-> row.created_at,
     kind |-> row.kind,
     tags |-> (IF row.schema # NoHash THEN <<Tag(NOSTR_SCHEMA_TAG, row.schema)>> ELSE <<>>)
              \o <<Tag(NOSTR_ID_TAG, row.data_id)>>,
     sig |-> row.sig, content |-> HashLink(row.content, None)]

\* rows of one kind, in the order a SELECT without ORDER BY scans the table
OfKind(db, k) == SelectSeq(db, LAMBDA row : row.kind = k)
OfKindAndId(db, k, id) == SelectSeq(db, LAMBDA row : row.kind = k /\ row.data_id = id)

\* ---- typed entities (impl EventObject) ----
EntityTypes == {"User", "Program", "Table", "Row", "Secret", "SpaceEvent"}

\* the kind into_mutate_event gives the event
MutateKind(type) ==
    CASE type = "User" -> "MutateUser"
      [] type = "Program" -> "MutateProgram"
      [] type = "Table" -> "MutateTable"
      [] type = "Row" -> "MutateRow"
      [] type = "Secret" -> "MutateSecret"
      [] type = "SpaceEvent" -> "MutateSchema"

\* the kind from_event requires of the event
AcceptedKind(type) ==
    CASE type = "User" -> "MutateUser"
      [] type = "Program" -> "MutateProgram"
      [] type = "Table" -> "MutateTable"
      [] type = "Row" -> "MutateRow"
      [] type = "Secret" -> "MutateSecret"
      [] type = "SpaceEvent" -> "MutateSpace"

\* the typed structs: detail is the profile, manifest, title or config read from
\* the content; schema is Row::schema
Entity(type, id, created_at, pubkey, content, sch, detail) ==
    [type |-> type, id |-> id, created_at |-> created_at, pubkey |-> pubkey,
     content |-> content, schema |-> sch, detail |-> detail]

NoEntity == Entity("Err", None, 0, None, HashLink(NoHash, None), NoHash, None)

\* EventObject::into_mutate_event
into_mutate_event(self, author) ==
    create(author, self.created_at, MutateKind(self.type),
           (IF self.type = "Row" THEN <<Tag(NOSTR_SCHEMA_TAG, self.schema)>> ELSE <<>>)
               \o <<Tag(NOSTR_ID_TAG, self.id)>>,
           self.content)

\* EventObject::from_event: Err for an event of another kind, without an id tag
\* or, for a row, without a sch tag
from_event(type, event) ==
    LET value == IF event.content.value # None THEN event.content.value
                 ELSE Resolve(event.content.hash)
        resolved == HashLink(event.content.hash, value)
    IN IF event.kind # AcceptedKind(type) THEN NoEntity
       ELSE IF type = "Row" /\ schema(event) = NoHash THEN NoEntity
       ELSE IF data_id(event) = None THEN NoEntity
       ELSE CASE type \in {"User", "Table", "Row", "SpaceEvent"} ->
                     Entity(type, data_id(event), event.created_at, event.pubkey, resolved,
                            schema(event), IF type = "Row" THEN None ELSE value)
              [] type = "Program" ->
                     Entity(type, data_id(event), event.created_at, event.pubkey,
                            event.content, NoHash, Resolve(event.content.hash))
              [] type = "Secret" ->
                     Entity(type, data_id(event), event.created_at, event.pubkey,
                            event.content, NoHash, event.content.value)

\* jsonschema::Validator::validate: the schema v accepts the values up to v
validate(schema_value, data) == data <= schema_value

\* ---- typed reads ----
\* Programs::get_by_id: the first row of the kind and id
get_by_id(db, id) ==
    LET rows == OfKindAndId(db, "MutateProgram", id)
    IN IF rows = <<>> THEN NoEntity ELSE from_event("Program", from_sql_row(rows[1]))

\* Secrets::for_program_id: ORDER BY created_at DESC LIMIT 1; the rows it may
\* return when several share the greatest created_at
for_program_id(db, id) ==
    LET rows == OfKindAndId(db, "MutateSecret", id)
    IN {from_event("Secret", from_sql_row(rows[i])) :
            i \in {j \in 1..Len(rows) : \A k \in 1..Len(rows) :
                                            rows[k].created_at <= rows[j].created_at}}

\* SELECT ... WHERE kind = ?1 LIMIT ?2 OFFSET ?3 (a negative limit is no limit)
Page(rows, offset, limit) ==
    LET last == IF limit < 0 \/ offset + limit > Len(rows) THEN Len(rows) ELSE offset + limit
    IN IF offset >= Len(rows) THEN <<>> ELSE SubSeq(rows, offset + 1, last)

\* Users::list, Tables::list, Programs::list, Secrets::list
list(db, type, offset, limit) ==
    LET rows == Page(OfKind(db, MutateKind(type)), offset, limit)
    IN [i \in 1..Len(rows) |-> from_event(type, from_sql_row(rows[i]))]

\* ---- sharing.rs ----
\* the collection of a shared space: space.json, space.db and the content blobs
\* that travel with it
NoCollection == [space_json |-> None, space_db |-> <<>>, blobs |-> {}]

\* mutant of export_space_with_capabilities: the content blobs of the exported
\* events are added to the collection
export_space_with_capabilities_ContentBlobs(db) ==
    [space_json |-> "info", space_db |-> db, blobs |-> {db[i].content : i \in 1..Len(db)}]

\* export_space_with_capabilities: space.json is the space's info, space.db is
\* the whole events table (events_for_cap_set ignores the capabilities); no
\* content blob is part of the collection
export_space_with_capabilities(db) ==
    [space_json |-> "info", space_db |-> db, blobs |-> {}]

\* HashLink::resolve on the node that downloaded the collection: read_to_bytes
\* finds only the blobs that node holds
ResolveFrom(collection, link) ==
    IF link.value # None THEN link.value
    ELSE IF link.hash \in collection.blobs THEN Resolve(link.hash)
    ELSE None

\* what Secrets::for_program_id and Secrets::list give on the node that opened
\* the collection's space.db: Secret::from_event takes the config from the inline
\* value and never reads the blob store
ImportedSecrets(collection) ==
    {from_event("Secret", from_sql_row(collection.space_db[i])) :
        i \in {j \in 1..Len(collection.space_db) :
                  collection.space_db[j].kind = "MutateSecret"}}

\* ---- Space::open ----
NoSpaceCall ==
    [op |-> "none", result |-> "", event |-> NoEvent, entity |-> NoEntity, dup |-> FALSE,
     db |-> <<>>, collection |-> NoCollection]

SpaceInit ==
    /\ events = <<>>
    /\ clock = 1
    /\ sync = FALSE
    /\ gossipSent = <<>>
    /\ lastCall = NoSpaceCall

\* ---- named blobs: bounds and keys ----
NumNames == 1
NumContents == 1
MaxPuts == 2

Names == 1..NumNames
Contents == 1..NumContents

\* the hash iroh blobs gives the bytes added to a store
BlobHash(bytes) == <<"blake3", bytes>>
BlobHashes == {BlobHash(b) : b \in Contents}

\* object_key: blobs/<name>, written with set_hash by its author
object_key(name, author, hash) ==
    [prefix |-> "blobs", name |-> name, hash |-> hash, node |-> None, author |-> author]

\* provider_key: providers/<hash>/<node_id>, written by its author with the "ok" value
provider_key(hash, node_id, author) ==
    [prefix |-> "providers", name |-> None, hash |-> hash, node |-> node_id, author |-> author]

\* an entry of the document is identified by its key and its author: a later
\* write of the same key by the same author replaces the earlier entry
SameKey(e, f) ==
    /\ e.prefix = f.prefix /\ e.author = f.author /\ e.name = f.name /\ e.node = f.node
    /\ e.prefix = "providers" => e.hash = f.hash

Insert(entries, e) == {f \in entries : ~SameKey(e, f)} \cup {e}

\* the entries the nodes can write
Entries ==
    {object_key(name, n, h) : name \in Names, n \in Workers, h \in BlobHashes}
        \cup {provider_key(h, n, n) : h \in BlobHashes, n \in Workers}

\* the tasks ContentRouter::handle_event can spawn
AutofetchTasks == [hash : BlobHashes, provider : Workers]

\* ContentRouter::find_providers on a node's replica
find_providers(n, hash) ==
    {e.node : e \in {f \in replica[n] : f.prefix = "providers" /\ f.hash = hash}}

\* Blobs::get_object_info on a node's replica: the hashes blobs/<name> maps to
get_object_info(n, name) ==
    {e.hash : e \in {f \in replica[n] : f.prefix = "blobs" /\ f.name = name}}

\* fetch_blob_from_provider: the download completes when the provider, or the
\* node itself, holds the content
fetch_blob_from_provider(n, hash, provider) == hash \in store[provider] \cup store[n]

NoPut == [name |-> None, hash |-> <<>>, at |-> "idle", result |-> ""]

BlobInit ==
    /\ opened = {}
    /\ autofetch = [n \in Workers |-> "Disabled"]
    /\ store = [n \in Workers |-> {}]
    /\ replica = [n \in Workers |-> {}]
    /\ net = {}
    /\ pending = [n \in Workers |-> {}]
    /\ tasks = [n \in Workers |-> {}]
    /\ putPc = [n \in Workers |-> NoPut]
    /\ puts = 0

\* ---- the files of Accounts and Spaces (accounts.rs, space.rs) ----
MaxCreates == 3

RepoPath == <<"repo">>
ACCOUNTS_FILENAME == "accounts.json"
SPACES_FILENAME == "spaces.json"

\* PathBuf::join
join(path, name) == Append(path, name)

\* Path::exists: only what was written exists; nothing exists below a file
exists(path) == path \in DOMAIN files

\* Accounts::spaces_path
Accounts_spaces_path(path) == join(path, ACCOUNTS_FILENAME)

\* Spaces::spaces_path
Spaces_spaces_path(path) == join(path, SPACES_FILENAME)

\* InnerAccounts::default
InnerAccounts_default == [current |-> 0, accounts |-> <<>>]

\* InnerAccounts::read_from_file
InnerAccounts_read_from_file(path) ==
    IF ~exists(path) THEN InnerAccounts_default ELSE files[path]

\* Spaces::read_from_file
Spaces_read_from_file(base_path) ==
    LET path == Spaces_spaces_path(base_path)
    IN IF ~exists(path) THEN <<>> ELSE files[path]

\* tokio::fs::write
fs_write(path, content) == (path :> content) @@ files

\* Executors::new: the root of the wasm executor of node n
wasm_root(n) == <<"worker_root", ToString(n), "wasm">>

\* JobContext::downloads_path, JobContext::uploads_path
downloads_path(root) == join(join(join(root, "scope"), "name"), "downloads")
uploads_path(root) == join(join(join(root, "scope"), "name"), "uploads")

\* tokio::fs::create_dir_all of both directories (wasm.rs 61-62)
create_dirs(n) ==
    (downloads_path(wasm_root(n)) :> "dir") @@ (uploads_path(wasm_root(n)) :> "dir") @@ files

Range(seq) == {seq[i] : i \in DOMAIN seq}

NoRegCall == [op |-> "", result |-> "", before |-> {}, entry |-> 0]

\* ---- the peers of the workspace document ----
\* Besides the nodes whose workers are followed there is one more peer: it holds
\* a replica and runs a scheduler, and its worker is disabled.
RelayPeer == NumRemoteWorkers + 1
Peers == Workers \cup {RelayPeer}
PeerTokens ==
    StatusTokens \cup {Display(Assigned(RelayPeer)), Display(Completed(RelayPeer)),
                       Display(Canceled(RelayPeer))}

NoKeys == [status |-> [t \in PeerTokens |-> Absent], assign |-> [w \in Peers |-> Absent]]

RelayVarsInit ==
    /\ copies = [p \in Peers |-> {}]
    /\ liveEvents = [p \in Peers |-> <<>>]
    /\ peerKeys = [p \in Peers \ {SchedulerNode} |-> NoKeys]

\* ---- a task of a flow: bounds ----
NumDeps == 1
MaxElapsed == 4
DepNames == 1..NumDeps
\* JobDescription::timeout of the task, in polling intervals
TaskTimeouts == 1..2

FlowVarsInit ==
    /\ flow = [pc |-> "new", deps |-> {}, timeout |-> 0, deadline |-> 0, output |-> "None",
               canceled |-> FALSE]
    /\ elapsed = 0
    /\ objects = {}

\* a repo path in which the node has not run yet
HostInit ==
    /\ files = <<>>
    /\ inner = [open |-> FALSE, file_path |-> <<>>, current |-> 0, accounts |-> <<>>]
    /\ spaces = [open |-> FALSE, path |-> <<>>, ids |-> {}]
    /\ fresh = 0
    /\ lastReg = NoRegCall
    /\ RelayVarsInit
    /\ FlowVarsInit

\* ---- events (doc.rs subscribe, parse_scheduler_event, parse_worker_event) ----
JobStatusChanged(status, hash) ==
    [type |-> "JobStatusChanged", status |-> status, exec |-> "", worker |-> None, hash |-> hash]
JobAssigned(w, hash) ==
    [type |-> "JobAssigned", status |-> Scheduling, exec |-> "", worker |-> w, hash |-> hash]
ExecutionStatusChanged(w, exec, hash) ==
    [type |-> "ExecutionStatusChanged", status |-> Scheduling, exec |-> exec, worker |-> w,
     hash |-> hash]

\* ---- reads ----
\* Entries are enumerated in key order (the store's default sort, author then key).
TagRank(t) ==
    CASE t[1] = "assigned-" -> 0
      [] t[1] = "canceled" -> 1
      [] t[1] = "canceled-" -> 2
      [] t[1] = "completed-" -> 3
      [] OTHER -> 4

TokenRank(t) == TagRank(t) * (NumRemoteWorkers + 3) + (IF Len(t) = 2 THEN t[2] + 1 ELSE 0)

RECURSIVE SortedTokens(_)
SortedTokens(S) ==
    IF S = {} THEN <<>>
    ELSE LET m == CHOOSE t \in S : \A u \in S : TokenRank(t) <= TokenRank(u)
         IN <<m>> \o SortedTokens(S \ {m})

Present(markers) == {t \in DOMAIN markers : markers[t] # Absent}

\* the loop of Scheduler::get_job over the entries `keys`, started from `acc`
RECURSIVE FoldStatus(_, _, _)
FoldStatus(acc, keys, markers) ==
    IF keys = <<>> THEN acc
    ELSE LET read_status == FromStr(Head(keys))
             next == IF acc.status.tag = "None"
                         THEN [status |-> read_status, hash |-> markers[Head(keys)]]
                     ELSE LET m == merge(acc.status, read_status)
                          IN [status |-> m.status,
                              hash |-> IF m.replaced THEN markers[Head(keys)] ELSE acc.hash]
         IN FoldStatus(next, Tail(keys), markers)

NoStatus == [tag |-> "None", id |-> None]
NoJob == [status |-> NoStatus, hash |-> Absent]

\* Scheduler::get_job: (status, job) or NoJob
get_job(markers) == FoldStatus(NoJob, SortedTokens(Present(markers)), markers)

get_job_status(markers) == get_job(markers).status

\* Worker::get_execution_status
ExecRank(k) ==
    CASE k = "Completed" -> 0
      [] k = "Requested" -> 1
      [] k = "Running" -> 2
      [] OTHER -> 3

ExecStep(status, read_status) ==
    IF status = "Unknown" THEN read_status
    ELSE IF status = "Requested" /\ read_status = "Running" THEN read_status
    ELSE IF status = "Requested" /\ read_status = "Skipped" THEN read_status
    ELSE IF status = "Running" /\ read_status = "Completed" THEN read_status
    ELSE status

RECURSIVE FoldExec(_, _)
FoldExec(status, S) ==
    IF S = {} THEN status
    ELSE LET k == CHOOSE x \in S : \A y \in S : ExecRank(x) <= ExecRank(y)
         IN FoldExec(ExecStep(status, k), S \ {k})

get_execution_status(w) == FoldExec("Unknown", Present(execMarkers[w]))

\* the loop of Worker::get_execution_status over the entries in the order `keys`
RECURSIVE FoldExecSeq(_, _)
FoldExecSeq(status, keys) ==
    IF keys = <<>> THEN status
    ELSE FoldExecSeq(ExecStep(status, Head(keys)), Tail(keys))

\* Executors::supports_job_type
supports_job_type(w, t) == IF t = "Docker" THEN docker[w] ELSE TRUE

\* set_hash_iff_new: does the write change the entry?
IsNew(markers, key, hash) == markers[key] # hash

\* ---- event fan-out ----
\* A key written by the scheduler is an InsertLocal event on node 0 and an
\* InsertRemote event on every other node; the inserts of one author reach a node
\* in the order they were written, those of different authors in any order.
\* A key written by worker w is handled by node 0 only: on any other node
\* Scheduler::handle_event finds no job of its own author (get_job_status is None)
\* and Worker::handle_event ignores worker events.  Of the worker keys only
\* Requested and Completed are queued: for Running and Skipped
\* handle_worker_execution_status_change writes nothing whatever the job status.
netVars == <<inbox0, chan, schedLog, pos>>

SchedulerEmit(evs) ==
    /\ inbox0' = inbox0 \o evs
    /\ schedLog' = schedLog \o evs
    /\ UNCHANGED <<chan, pos>>

WorkerEmit(w, e) ==
    IF e.exec \notin {"Requested", "Completed"} THEN UNCHANGED netVars
    ELSE IF w = SchedulerNode
        THEN inbox0' = Append(inbox0, e) /\ UNCHANGED <<chan, schedLog, pos>>
    ELSE chan' = [chan EXCEPT ![w] = Append(@, e)] /\ UNCHANGED <<inbox0, schedLog, pos>>

\* Worker::set_execution_state
set_execution_state(w, status, hash) ==
    IF IsNew(execMarkers[w], status, hash)
        THEN /\ execMarkers' = [execMarkers EXCEPT ![w][status] = hash]
             /\ WorkerEmit(w, ExecutionStatusChanged(w, status, hash))
    ELSE UNCHANGED <<execMarkers, netVars>>

\* Scheduler::set_job_state_ref
set_job_state_ref(status, hash) ==
    IF IsNew(jobMarkers, Display(status), hash)
        THEN /\ jobMarkers' = [jobMarkers EXCEPT ![Display(status)] = hash]
             /\ SchedulerEmit(<<JobStatusChanged(status, hash)>>)
    ELSE UNCHANGED <<jobMarkers, netVars>>

\* Executors::new: the nodes on which Docker::new succeeds
HasDocker(w) == w # NumRemoteWorkers

NoPending == [op |-> "none", worker |-> None, hash |-> Absent]
NoCall == [closed |-> FALSE, result |-> "", wrote |-> FALSE]
NoCancel == [status |-> NoStatus, hash |-> Absent, closed |-> FALSE]

Init ==
    /\ jobMarkers = [t \in StatusTokens |-> Absent]
    /\ assignKeys = [w \in Workers |-> Absent]
    /\ execMarkers = [w \in Workers |-> [k \in ExecKeys |-> Absent]]
    /\ inbox0 = <<>>
    /\ chan = [w \in Workers |-> <<>>]
    /\ schedLog = <<>>
    /\ pos = [n \in Workers |-> 0]
    /\ schedPending = NoPending
    /\ statusTasks = [w \in Workers |-> {}]
    /\ running = [w \in Workers |-> Absent]
    /\ current_jobs = [w \in Workers |-> FALSE]
    /\ timedOut = [w \in Workers |-> FALSE]
    /\ enabled = [w \in Workers |-> TRUE]
    /\ docker = [w \in Workers |-> HasDocker(w)]
    /\ jobType \in JobTypes
    /\ waiterPc = "new"
    /\ waiterWorker = None
    /\ waiterPos = 0
    /\ waiterResult = Absent
    /\ statusLog = <<>>
    /\ cancelPending = NoCancel
    /\ cancelCount = 0
    /\ lastCancel = NoCall
    /\ SpaceInit
    /\ BlobInit
    /\ assignTasks = [w \in Workers |-> <<>>]
    /\ executions = [w \in Workers |-> 0]
    /\ HostInit

workerVars == <<statusTasks, running, current_jobs, timedOut>>
configVars == <<enabled, docker, jobType>>
waiterVars == <<waiterPc, waiterWorker, waiterPos, waiterResult>>
cancelVars == <<cancelPending, cancelCount, lastCancel>>

\* ---- Worker::enable / Worker::disable ----
\* The flag is read by handle_job_status_change only, which is spawned only while
\* the worker's execution status is Unknown: calls made later cannot affect the job.
FlagLive(w) == get_execution_status(w) = "Unknown" \/ statusTasks[w] # {}

Enable(w) ==
    /\ FlagLive(w)
    /\ ~enabled[w]
    /\ enabled' = [enabled EXCEPT ![w] = TRUE]
    /\ UNCHANGED <<jobMarkers, assignKeys, execMarkers, netVars, schedPending,
                   workerVars, docker, jobType, waiterVars, statusLog, cancelVars>>
    /\ UNCHANGED <<spaceVars, blobVars, taskVars, hostVars>>

Disable(w) ==
    /\ FlagLive(w)
    /\ enabled[w]
    /\ enabled' = [enabled EXCEPT ![w] = FALSE]
    /\ UNCHANGED <<jobMarkers, assignKeys, execMarkers, netVars, schedPending,
                   workerVars, docker, jobType, waiterVars, statusLog, cancelVars>>
    /\ UNCHANGED <<spaceVars, blobVars, taskVars, hostVars>>

\* ---- Scheduler::run_job_and_wait ----
\* line 91: subscribe_job_status_change
Subscribe ==
    /\ waiterPc = "new"
    /\ waiterPc' = "subscribed"
    /\ waiterPos' = Len(statusLog)
    /\ UNCHANGED <<jobMarkers, assignKeys, execMarkers, netVars, schedPending,
                   workerVars, configVars, waiterWorker, waiterResult, statusLog, cancelVars>>
    /\ UNCHANGED <<spaceVars, blobVars, taskVars, hostVars>>

\* line 92: run_job, which writes the scheduling marker
run_job ==
    /\ waiterPc = "subscribed"
    /\ waiterPc' = "waiting"
    /\ set_job_state_ref(Scheduling, DefaultResult)
    /\ UNCHANGED <<assignKeys, execMarkers, schedPending, workerVars, configVars,
                   waiterWorker, waiterPos, waiterResult, statusLog, cancelVars>>
    /\ UNCHANGED <<spaceVars, blobVars, taskVars, hostVars>>

\* Scheduler::get_job_result read at line 129, after the loop was left
WaitResult(worker_id) ==
    LET j == get_job(jobMarkers)
    IN IF j.status.tag = "Completed"
           THEN IF j.status.id = worker_id THEN j.hash ELSE JobResult(None, "bail")
       ELSE JobResult(None, "bail")

\* WaiterRecv whose Assigned arm does not record the worker id
WaiterRecv_ForgetsWorker ==
    /\ waiterPc = "waiting"
    /\ waiterPos < Len(statusLog)
    /\ LET status == statusLog[waiterPos + 1]
       IN /\ waiterPos' = waiterPos + 1
          /\ waiterWorker' = waiterWorker
          /\ IF status.tag = "Canceled"
                 THEN /\ waiterPc' = "done"
                      /\ waiterResult' = JobResult(waiterWorker, "canceled")
             ELSE IF status.tag = "Completed" /\ waiterWorker # None /\ status.id = waiterWorker
                 THEN /\ waiterPc' = "done"
                      /\ waiterResult' = WaitResult(waiterWorker)
             ELSE UNCHANGED <<waiterPc, waiterResult>>
    /\ UNCHANGED <<jobMarkers, assignKeys, execMarkers, netVars, schedPending,
                   workerVars, configVars, statusLog, cancelVars>>
    /\ UNCHANGED <<spaceVars, blobVars, taskVars, hostVars>>

\* one iteration of the loop at lines 95-126
WaiterRecv ==
    /\ waiterPc = "waiting"
    /\ waiterPos < Len(statusLog)
    /\ LET status == statusLog[waiterPos + 1]
       IN /\ waiterPos' = waiterPos + 1
          /\ waiterWorker' = IF status.tag = "Assigned" THEN status.id ELSE waiterWorker
          /\ IF status.tag = "Canceled"
                 THEN /\ waiterPc' = "done"
                      /\ waiterResult' = JobResult(waiterWorker, "canceled")
             ELSE IF status.tag = "Completed" /\ waiterWorker # None /\ status.id = waiterWorker
                 THEN /\ waiterPc' = "done"
                      /\ waiterResult' = WaitResult(waiterWorker)
             ELSE UNCHANGED <<waiterPc, waiterResult>>
    /\ UNCHANGED <<jobMarkers, assignKeys, execMarkers, netVars, schedPending,
                   workerVars, configVars, statusLog, cancelVars>>
    /\ UNCHANGED <<spaceVars, blobVars, taskVars, hostVars>>

\* ---- Scheduler::cancel_job ----
\* a completed or canceled marker of the job exists
Closed(markers) == \E t \in Present(markers) : FromStr(t).tag \in {"Completed", "Canceled"}

\* line 152: get_job
CancelRead ==
    /\ cancelCount < MaxCancels
    /\ cancelCount' = cancelCount + 1
    /\ cancelPending = NoCancel
    /\ LET j == get_job(jobMarkers)
       IN IF j.status.tag \in {"Scheduling", "Assigned"}
              THEN /\ cancelPending' = [status |-> j.status, hash |-> j.hash,
                                         closed |-> Closed(jobMarkers)]
                   /\ UNCHANGED lastCancel
          ELSE /\ lastCancel' = [closed |-> Closed(jobMarkers), result |-> "err", wrote |-> FALSE]
               /\ UNCHANGED cancelPending
    /\ UNCHANGED <<jobMarkers, assignKeys, execMarkers, netVars, schedPending,
                   workerVars, configVars, waiterVars, statusLog>>
    /\ UNCHANGED <<spaceVars, blobVars, taskVars, hostVars>>

\* lines 160-167: set_job_state with the canceled marker
CancelWrite ==
    /\ cancelPending # NoCancel
    /\ LET status == IF cancelPending.status.tag = "Scheduling" THEN Canceled(None)
                     ELSE Canceled(cancelPending.status.id)
       IN /\ set_job_state_ref(status, cancelPending.hash)
          /\ lastCancel' = [closed |-> cancelPending.closed, result |-> "ok",
                             wrote |-> IsNew(jobMarkers, Display(status), cancelPending.hash)]
    /\ cancelPending' = NoCancel
    /\ UNCHANGED cancelCount
    /\ UNCHANGED <<assignKeys, execMarkers, schedPending, workerVars, configVars,
                   waiterVars, statusLog>>
    /\ UNCHANGED <<spaceVars, blobVars, taskVars, hostVars>>

\* ---- the event loop of a node (Workspace::open, lines 95-113) ----
\* The next event of node n: the oldest insert of any one author.
NextEvents(n) ==
    IF n = SchedulerNode
        THEN (IF inbox0 # <<>> THEN {[ev |-> Head(inbox0), from |-> SchedulerNode]} ELSE {})
                 \cup {[ev |-> Head(chan[w]), from |-> w] : w \in {v \in Workers : chan[v] # <<>>}}
    ELSE IF pos[n] < Len(schedLog)
        THEN {[ev |-> schedLog[pos[n] + 1], from |-> SchedulerNode]}
    ELSE {}

Consume(n, x) ==
    IF n # SchedulerNode THEN pos' = [pos EXCEPT ![n] = @ + 1] /\ UNCHANGED <<inbox0, chan, schedLog>>
    ELSE IF x.from = SchedulerNode THEN inbox0' = Tail(inbox0) /\ UNCHANGED <<chan, schedLog, pos>>
    ELSE chan' = [chan EXCEPT ![x.from] = Tail(@)] /\ UNCHANGED <<inbox0, schedLog, pos>>

\* DecideWrite without the match on the job status being Scheduling
DecideWrite_AnyStatus(status, e) ==
    IF e.exec = "Requested"
        THEN [op |-> "assign", worker |-> e.worker, hash |-> e.hash]
    ELSE IF status.tag = "Assigned" /\ e.exec = "Completed" /\ e.worker = status.id
        THEN [op |-> "complete", worker |-> e.worker, hash |-> e.hash]
    ELSE NoPending

\* Scheduler::handle_worker_execution_status_change up to its first write:
\* the write decided from get_job_status
DecideWrite(status, e) ==
    IF status.tag = "Scheduling" /\ e.exec = "Requested"
        THEN [op |-> "assign", worker |-> e.worker, hash |-> e.hash]
    ELSE IF status.tag = "Assigned" /\ e.exec = "Completed" /\ e.worker = status.id
        THEN [op |-> "complete", worker |-> e.worker, hash |-> e.hash]
    ELSE NoPending

\* Scheduler::handle_event, EventData::Worker arm (node 0 awaits it before the next event)
SchedulerHandleWorkerEvent(x) ==
    /\ schedPending = NoPending
    /\ x \in NextEvents(SchedulerNode)
    /\ x.ev.type = "ExecutionStatusChanged"
    /\ schedPending' = DecideWrite(get_job_status(jobMarkers), x.ev)
    /\ Consume(SchedulerNode, x)
    /\ UNCHANGED <<jobMarkers, assignKeys, execMarkers, workerVars, configVars, waiterVars,
                   statusLog, cancelVars>>
    /\ UNCHANGED <<spaceVars, blobVars, taskVars, hostVars>>

\* Scheduler::assign_job: the assignment key, then the assigned-<w> marker
assign_job(w, hash) ==
    LET a == IF IsNew(assignKeys, w, hash) THEN <<JobAssigned(w, hash)>> ELSE <<>>
        st == IF IsNew(jobMarkers, Display(Assigned(w)), hash)
                  THEN <<JobStatusChanged(Assigned(w), hash)>> ELSE <<>>
    IN /\ assignKeys' = [assignKeys EXCEPT ![w] = hash]
       /\ jobMarkers' = [jobMarkers EXCEPT ![Display(Assigned(w))] = hash]
       /\ SchedulerEmit(a \o st)

\* mark_job_completed that keeps the blob of the assigned marker
mark_job_completed_AssignedBlob(w, hash) ==
    /\ set_job_state_ref(Completed(w), jobMarkers[Display(Assigned(w))])
    /\ UNCHANGED assignKeys

\* Scheduler::mark_job_completed
mark_job_completed(w, hash) ==
    /\ set_job_state_ref(Completed(w), hash)
    /\ UNCHANGED assignKeys

\* the writes of handle_worker_execution_status_change
SchedulerWrite ==
    /\ schedPending # NoPending
    /\ IF schedPending.op = "assign"
           THEN assign_job(schedPending.worker, schedPending.hash)
       ELSE mark_job_completed(schedPending.worker, schedPending.hash)
    /\ schedPending' = NoPending
    /\ UNCHANGED <<execMarkers, workerVars, configVars, waiterVars, statusLog, cancelVars>>
    /\ UNCHANGED <<spaceVars, blobVars, taskVars, hostVars>>

\* JobStatusChanged on node n: Scheduler::handle_event broadcasts it to the
\* subscribers (recorded for node 0), then Worker::handle_event spawns
\* handle_job_status_change when the worker's execution status is Unknown.
HandleJobStatusChanged(n, x) ==
    /\ n = SchedulerNode => schedPending = NoPending
    /\ x \in NextEvents(n)
    /\ x.ev.type = "JobStatusChanged"
    /\ statusLog' = IF n = SchedulerNode THEN Append(statusLog, x.ev.status) ELSE statusLog
    /\ statusTasks' = IF get_execution_status(n) = "Unknown"
                          THEN [statusTasks EXCEPT ![n] = @ \cup {x.ev.hash}]
                      ELSE statusTasks
    /\ Consume(n, x)
    /\ UNCHANGED <<jobMarkers, assignKeys, execMarkers, schedPending, running,
                   current_jobs, timedOut, configVars, waiterVars, cancelVars>>
    /\ UNCHANGED <<spaceVars, blobVars, taskVars, hostVars>>

\* ---- worker tasks ----
\* handle_job_status_change without the test of is_enabled and supports_job_type
handle_job_status_change_Unchecked(w, job_hash) ==
    /\ job_hash \in statusTasks[w]
    /\ statusTasks' = [statusTasks EXCEPT ![w] = @ \ {job_hash}]
    /\ set_execution_state(w, "Requested", job_hash)
    /\ UNCHANGED <<jobMarkers, assignKeys, schedPending, running, current_jobs, timedOut,
                   configVars, waiterVars, statusLog, cancelVars>>
    /\ UNCHANGED <<spaceVars, blobVars, taskVars, hostVars>>

\* Worker::handle_job_status_change
handle_job_status_change(w, job_hash) ==
    /\ job_hash \in statusTasks[w]
    /\ statusTasks' = [statusTasks EXCEPT ![w] = @ \ {job_hash}]
    /\ IF enabled[w] /\ supports_job_type(w, jobType)
           THEN set_execution_state(w, "Requested", job_hash)
       ELSE UNCHANGED <<execMarkers, netVars>>
    /\ UNCHANGED <<jobMarkers, assignKeys, schedPending, running, current_jobs, timedOut,
                   configVars, waiterVars, statusLog, cancelVars>>
    /\ UNCHANGED <<spaceVars, blobVars, taskVars, hostVars>>

\* handle_job_assignment without the comparison of `worker` with the own author id
handle_job_assignment_NotOurs(n, x) ==
    /\ n = SchedulerNode => schedPending = NoPending
    /\ x \in NextEvents(n)
    /\ x.ev.type = "JobAssigned"
    /\ Consume(n, x)
    /\ IF current_jobs[n] \/ get_execution_status(n) # "Requested"
           THEN UNCHANGED <<execMarkers, running, current_jobs>>
       ELSE /\ current_jobs' = [current_jobs EXCEPT ![n] = TRUE]
            /\ execMarkers' = [execMarkers EXCEPT ![n]["Running"] = x.ev.hash]
            /\ running' = [running EXCEPT ![n] = x.ev.hash]
    /\ UNCHANGED <<jobMarkers, assignKeys, schedPending, statusTasks, timedOut, configVars,
                   waiterVars, statusLog, cancelVars>>
    /\ UNCHANGED <<spaceVars, blobVars, taskVars, hostVars>>

\* JobAssigned on node n: Worker::handle_event spawns handle_job_assignment, taken
\* here up to the start of the execution (the spawn itself reads and writes nothing).
\* The Guard taken at line 350 is dropped when the function returns; the removal
\* from current_jobs that the drop spawns is taken together with the return.
handle_job_assignment(n, x) ==
    /\ n = SchedulerNode => schedPending = NoPending
    /\ x \in NextEvents(n)
    /\ x.ev.type = "JobAssigned"
    /\ Consume(n, x)
    /\ LET is_our_job == x.ev.worker = n
           status == get_execution_status(n)
       IN IF ~is_our_job
              THEN /\ execMarkers' = IF status = "Requested"
                                         THEN [execMarkers EXCEPT ![n]["Skipped"] = x.ev.hash]
                                     ELSE execMarkers
                   /\ UNCHANGED <<running, current_jobs>>
          ELSE IF current_jobs[n] \/ status # "Requested"
              THEN UNCHANGED <<execMarkers, running, current_jobs>>
          ELSE /\ current_jobs' = [current_jobs EXCEPT ![n] = TRUE]
               /\ execMarkers' = [execMarkers EXCEPT ![n]["Running"] = x.ev.hash]
               /\ running' = [running EXCEPT ![n] = x.ev.hash]
    /\ UNCHANGED <<jobMarkers, assignKeys, schedPending, statusTasks, timedOut, configVars,
                   waiterVars, statusLog, cancelVars>>
    /\ UNCHANGED <<spaceVars, blobVars, taskVars, hostVars>>

\* ExecutionOutcome that reports an elapsed timeout like any other error
ExecutionOutcome_TimeoutAsErr(timed_out, failed) ==
    IF timed_out \/ failed THEN "Err" ELSE "Ok"

\* lines 371-384: what the timed execution yields
ExecutionOutcome(timed_out, failed) ==
    IF timed_out THEN "ErrTimeout" ELSE IF failed THEN "Err" ELSE "Ok"

\* ExecuteJob that starts Scheduler::cancel_job for the job when the timeout elapsed
ExecuteJob_CancelsOnTimeout(w, timed_out, failed) ==
    /\ running[w] # Absent
    /\ running' = [running EXCEPT ![w] = Absent]
    /\ current_jobs' = [current_jobs EXCEPT ![w] = FALSE]
    /\ timedOut' = [timedOut EXCEPT ![w] = timed_out]
    /\ set_execution_state(w, "Completed", JobResult(w, ExecutionOutcome(timed_out, failed)))
    /\ IF timed_out /\ cancelPending = NoCancel
           THEN /\ cancelPending' = [status |-> get_job(jobMarkers).status,
                                      hash |-> get_job(jobMarkers).hash,
                                      closed |-> Closed(jobMarkers)]
                /\ UNCHANGED <<cancelCount, lastCancel>>
       ELSE UNCHANGED cancelVars
    /\ UNCHANGED <<jobMarkers, assignKeys, schedPending, statusTasks, configVars, waiterVars,
                   statusLog>>
    /\ UNCHANGED <<spaceVars, blobVars, taskVars, hostVars>>

\* Worker::handle_job_assignment from the execution to its return:
\* set_scheduled_job_result rewrites the blob and publishes Completed
ExecuteJob(w, timed_out, failed) ==
    /\ running[w] # Absent
    /\ running' = [running EXCEPT ![w] = Absent]
    /\ current_jobs' = [current_jobs EXCEPT ![w] = FALSE]
    /\ timedOut' = [timedOut EXCEPT ![w] = timed_out]
    /\ set_execution_state(w, "Completed", JobResult(w, ExecutionOutcome(timed_out, failed)))
    /\ UNCHANGED <<jobMarkers, assignKeys, schedPending, statusTasks, configVars, waiterVars,
                   statusLog, cancelVars>>
    /\ UNCHANGED <<spaceVars, blobVars, taskVars, hostVars>>

Next ==
    \/ Subscribe
    \/ run_job
    \/ WaiterRecv
    \/ CancelRead
    \/ CancelWrite
    \/ SchedulerWrite
    \/ \E w \in Workers : Enable(w)
    \/ \E w \in Workers : Disable(w)
    \/ \E x \in NextEvents(SchedulerNode) : SchedulerHandleWorkerEvent(x)
    \/ \E n \in Workers : \E x \in NextEvents(n) : HandleJobStatusChanged(n, x)
    \/ \E w \in Workers : \E h \in statusTasks[w] : handle_job_status_change(w, h)
    \/ \E n \in Workers : \E x \in NextEvents(n) : handle_job_assignment(n, x)
    \/ \E w \in Workers : \E timed_out \in BOOLEAN : \E failed \in BOOLEAN :
           ExecuteJob(w, timed_out, failed)

Spec == Init /\ [][Next]_vars

\* ---- Worker::handle_job_assignment, one await at a time ----
\* The scheduler has assigned the job; the insert event of the assignment key may
\* reach a node more than once, and every delivery spawns a task of its own.
MaxDeliveries == 3

AssignTask(worker, hash) ==
    [pc |-> "spawned", status |-> "Unknown", worker |-> worker, hash |-> hash]

\* the number of handle_job_assignment tasks spawned on the nodes of S
RECURSIVE Spawned(_)
Spawned(S) ==
    IF S = {} THEN 0
    ELSE LET w == CHOOSE x \in S : TRUE
         IN Len(assignTasks[w]) + Spawned(S \ {w})

TaskIds(n) == 1..Len(assignTasks[n])

\* The job after Scheduler::assign_job(a): worker a had requested it, any other
\* worker may have; the events written so far have been handled.
AssignInit ==
    \E a \in Workers : \E requested \in SUBSET (Workers \ {a}) :
        /\ jobMarkers = [t \in StatusTokens |->
                             IF t \in {Display(Scheduling), Display(Assigned(a))}
                                 THEN DefaultResult ELSE Absent]
        /\ assignKeys = [w \in Workers |-> IF w = a THEN DefaultResult ELSE Absent]
        /\ execMarkers = [w \in Workers |-> [k \in ExecKeys |->
                             IF k = "Requested" /\ w \in requested \cup {a}
                                 THEN DefaultResult ELSE Absent]]
        /\ inbox0 = <<>>
        /\ chan = [w \in Workers |-> <<>>]
        /\ schedLog = <<>>
        /\ pos = [n \in Workers |-> 0]
        /\ schedPending = NoPending
        /\ statusTasks = [w \in Workers |-> {}]
        /\ running = [w \in Workers |-> Absent]
        /\ current_jobs = [w \in Workers |-> FALSE]
        /\ timedOut = [w \in Workers |-> FALSE]
        /\ enabled = [w \in Workers |-> TRUE]
        /\ docker = [w \in Workers |-> HasDocker(w)]
        /\ jobType = "Wasm"
        /\ waiterPc = "waiting"
        /\ waiterWorker = None
        /\ waiterPos = 0
        /\ waiterResult = Absent
        /\ statusLog = <<>>
        /\ cancelPending = NoCancel
        /\ cancelCount = 0
        /\ lastCancel = NoCall
        /\ SpaceInit
        /\ BlobInit
        /\ assignTasks = [w \in Workers |-> <<>>]
        /\ executions = [w \in Workers |-> 0]
        /\ HostInit

\* Worker::handle_event, JobAssigned arm: a task is spawned for the event
Worker_handle_event_JobAssigned(n, a) ==
    /\ assignKeys[a] # Absent
    /\ Spawned(Workers) < MaxDeliveries
    /\ assignTasks' = [assignTasks EXCEPT ![n] = Append(@, AssignTask(a, assignKeys[a]))]
    /\ UNCHANGED <<vmVars, executions, spaceVars, blobVars, hostVars>>

\* line 323: the execution status is read
handle_job_assignment_status(n, t) ==
    /\ assignTasks[n][t].pc = "spawned"
    /\ assignTasks' = [assignTasks EXCEPT ![n][t].pc = "read",
                                          ![n][t].status = get_execution_status(n)]
    /\ UNCHANGED <<vmVars, executions, spaceVars, blobVars, hostVars>>

\* handle_job_assignment_guard that runs its own job whatever status was read
handle_job_assignment_guard_AnyStatus(n, t) ==
    LET task == assignTasks[n][t]
    IN /\ task.pc = "read"
       /\ IF task.worker # n
              THEN /\ IF task.status = "Requested"
                          THEN set_execution_state(n, "Skipped", task.hash)
                      ELSE UNCHANGED <<execMarkers, netVars>>
                   /\ assignTasks' = [assignTasks EXCEPT ![n][t].pc = "done"]
                   /\ UNCHANGED current_jobs
          ELSE IF current_jobs[n]
              THEN /\ assignTasks' = [assignTasks EXCEPT ![n][t].pc = "done"]
                   /\ UNCHANGED <<execMarkers, netVars, current_jobs>>
          ELSE /\ current_jobs' = [current_jobs EXCEPT ![n] = TRUE]
               /\ set_execution_state(n, "Running", task.hash)
               /\ assignTasks' = [assignTasks EXCEPT ![n][t].pc = "executing"]
       /\ UNCHANGED <<jobMarkers, assignKeys, schedPending, statusTasks, running, timedOut,
                      configVars, waiterVars, statusLog, cancelVars, executions>>
       /\ UNCHANGED <<spaceVars, blobVars, hostVars>>

\* lines 325-361: not our job (skip_job), the guard set, then the branch on the
\* status read at line 323, up to the Running marker
handle_job_assignment_guard(n, t) ==
    LET task == assignTasks[n][t]
        is_our_job == task.worker = n
    IN /\ task.pc = "read"
       /\ IF ~is_our_job
              THEN /\ IF task.status = "Requested"
                          THEN set_execution_state(n, "Skipped", task.hash)
                      ELSE UNCHANGED <<execMarkers, netVars>>
                   /\ assignTasks' = [assignTasks EXCEPT ![n][t].pc = "done"]
                   /\ UNCHANGED current_jobs
          ELSE IF current_jobs[n]
              THEN /\ assignTasks' = [assignTasks EXCEPT ![n][t].pc = "done"]
                   /\ UNCHANGED <<execMarkers, netVars, current_jobs>>
          ELSE /\ current_jobs' = [current_jobs EXCEPT ![n] = TRUE]
               /\ IF task.status = "Requested"
                      THEN /\ set_execution_state(n, "Running", task.hash)
                           /\ assignTasks' = [assignTasks EXCEPT ![n][t].pc = "executing"]
                  ELSE /\ assignTasks' = [assignTasks EXCEPT ![n][t].pc = "returned"]
                       /\ UNCHANGED <<execMarkers, netVars>>
       /\ UNCHANGED <<jobMarkers, assignKeys, schedPending, statusTasks, running, timedOut,
                      configVars, waiterVars, statusLog, cancelVars, executions>>
       /\ UNCHANGED <<spaceVars, blobVars, hostVars>>

\* lines 363-406: the timed execute_job, then set_scheduled_job_result, which
\* rewrites the blob and publishes Completed; the function returns.  The wasm
\* executor makes the job's directories unless it failed before it got there.
handle_job_assignment_execute(n, t, timed_out, failed) ==
    /\ assignTasks[n][t].pc = "executing"
    /\ executions' = [executions EXCEPT ![n] = @ + 1]
    /\ timedOut' = [timedOut EXCEPT ![n] = timed_out]
    /\ set_execution_state(n, "Completed", JobResult(n, ExecutionOutcome(timed_out, failed)))
    /\ assignTasks' = [assignTasks EXCEPT ![n][t].pc = "returned"]
    /\ \E made \in (IF failed THEN BOOLEAN ELSE {TRUE}) :
           files' = IF made THEN create_dirs(n) ELSE files
    /\ UNCHANGED <<jobMarkers, assignKeys, schedPending, statusTasks, running, current_jobs,
                   configVars, waiterVars, statusLog, cancelVars>>
    /\ UNCHANGED <<spaceVars, blobVars, inner, spaces, fresh, lastReg, relayVars, flowVars>>

\* lines 371-372: execute_job panics.  Nothing between the executor and
\* tokio::task::spawn (line 473) catches the unwind: the task ends there, its
\* Guard is dropped on the way and nothing is published.
handle_job_assignment_panic(n, t) ==
    /\ assignTasks[n][t].pc = "executing"
    /\ executions' = [executions EXCEPT ![n] = @ + 1]
    /\ assignTasks' = [assignTasks EXCEPT ![n][t].pc = "returned"]
    /\ files' = create_dirs(n)
    /\ UNCHANGED <<vmVars, spaceVars, blobVars, inner, spaces, fresh, lastReg, relayVars, flowVars>>

\* lines 339-348: the task that Guard::drop spawns removes the job id from the set
Guard_drop(n, t) ==
    /\ assignTasks[n][t].pc = "returned"
    /\ assignTasks' = [assignTasks EXCEPT ![n][t].pc = "done"]
    /\ current_jobs' = [current_jobs EXCEPT ![n] = FALSE]
    /\ UNCHANGED <<jobMarkers, assignKeys, execMarkers, netVars, schedPending, statusTasks,
                   running, timedOut, configVars, waiterVars, statusLog, cancelVars, executions>>
    /\ UNCHANGED <<spaceVars, blobVars, hostVars>>

AssignNext ==
    \/ \E n \in Workers : \E a \in Workers : Worker_handle_event_JobAssigned(n, a)
    \/ \E n \in Workers : \E t \in TaskIds(n) : handle_job_assignment_status(n, t)
    \/ \E n \in Workers : \E t \in TaskIds(n) : handle_job_assignment_guard(n, t)
    \/ \E n \in Workers : \E t \in TaskIds(n) : \E timed_out \in BOOLEAN : \E failed \in BOOLEAN :
           handle_job_assignment_execute(n, t, timed_out, failed)
    \/ \E n \in Workers : \E t \in TaskIds(n) : handle_job_assignment_panic(n, t)
    \/ \E n \in Workers : \E t \in TaskIds(n) : Guard_drop(n, t)

AssignSpec == AssignInit /\ [][AssignNext]_vars

\* ---- calls on Accounts and Spaces ----
\* Accounts::open
Accounts_open ==
    LET path == Accounts_spaces_path(RepoPath)
        written == IF ~exists(path) THEN fs_write(path, InnerAccounts_default) ELSE files
    IN /\ files' = written
       /\ inner' = [open |-> TRUE, file_path |-> path, current |-> written[path].current,
                    accounts |-> written[path].accounts]
       /\ lastReg' = [NoRegCall EXCEPT !.op = "Accounts::open", !.result = "ok"]
       /\ UNCHANGED <<spaces, fresh, vmVars, spaceVars, blobVars, taskVars, relayVars, flowVars>>

\* Accounts::create_account; the user's id is a new Uuid
Accounts_create_account ==
    LET user == fresh + 1
        details == InnerAccounts_read_from_file(Accounts_spaces_path(inner.file_path))
        pushed == [details EXCEPT !.accounts = Append(@, user)]
    IN /\ inner.open
       /\ fresh < MaxCreates
       /\ fresh' = user
       /\ inner' = [inner EXCEPT !.accounts = Append(@, user)]
       /\ files' = fs_write(inner.file_path, pushed)
       /\ lastReg' = [op |-> "Accounts::create_account", result |-> "ok",
                      before |-> Range(InnerAccounts_read_from_file(inner.file_path).accounts),
                      entry |-> user]
       /\ UNCHANGED <<spaces, vmVars, spaceVars, blobVars, taskVars, relayVars, flowVars>>

\* Accounts::current: None, Some(user), or the panic of an index out of bounds
current(self) ==
    IF Len(self.accounts) < self.current THEN "None"
    ELSE IF self.current + 1 \in DOMAIN self.accounts THEN "Some"
    ELSE "panic"

Accounts_current ==
    /\ inner.open
    /\ lastReg' = [NoRegCall EXCEPT !.op = "Accounts::current", !.result = current(inner)]
    /\ UNCHANGED <<files, inner, spaces, fresh, vmVars, spaceVars, blobVars, taskVars, relayVars, flowVars>>

\* Spaces::open_all
Spaces_open_all ==
    /\ spaces' = [open |-> TRUE, path |-> RepoPath,
                  ids |-> Range(Spaces_read_from_file(RepoPath))]
    /\ lastReg' = [NoRegCall EXCEPT !.op = "Spaces::open_all", !.result = "ok"]
    /\ UNCHANGED <<files, inner, fresh, vmVars, spaceVars, blobVars, taskVars, relayVars, flowVars>>

\* Spaces::create; the database of the new space is what SpaceSpec follows
Spaces_create ==
    LET id == fresh + 1
        details == Spaces_read_from_file(join(spaces.path, SPACES_FILENAME))
    IN /\ spaces.open
       /\ fresh < MaxCreates
       /\ fresh' = id
       /\ spaces' = [spaces EXCEPT !.ids = @ \cup {id}]
       /\ files' = fs_write(Spaces_spaces_path(spaces.path), Append(details, id))
       /\ lastReg' = [op |-> "Spaces::create", result |-> "ok",
                      before |-> Range(Spaces_read_from_file(spaces.path)),
                      entry |-> id]
       /\ UNCHANGED <<inner, vmVars, spaceVars, blobVars, taskVars, relayVars, flowVars>>

HostNext ==
    \/ Accounts_open
    \/ Accounts_create_account
    \/ Accounts_current
    \/ Spaces_open_all
    \/ Spaces_create

HostSpec == Init /\ [][HostNext]_vars

\* ---- a worker marker on its way between the peers (doc.rs subscribe) ----
\* The job before Scheduler::run_job; every peer holds a replica of the document
\* and is subscribed to its inserts.
RelayInit ==
    /\ jobMarkers = [t \in PeerTokens |-> Absent]
    /\ assignKeys = [w \in Peers |-> Absent]
    /\ execMarkers = [w \in Workers |-> [k \in ExecKeys |-> Absent]]
    /\ inbox0 = <<>>
    /\ chan = [w \in Workers |-> <<>>]
    /\ schedLog = <<>>
    /\ pos = [n \in Workers |-> 0]
    /\ schedPending = NoPending
    /\ statusTasks = [w \in Workers |-> {}]
    /\ running = [w \in Workers |-> Absent]
    /\ current_jobs = [w \in Workers |-> FALSE]
    /\ timedOut = [w \in Workers |-> FALSE]
    /\ enabled = [w \in Workers |-> TRUE]
    /\ docker = [w \in Workers |-> HasDocker(w)]
    /\ jobType = "Wasm"
    /\ waiterPc = "new"
    /\ waiterWorker = None
    /\ waiterPos = 0
    /\ waiterResult = Absent
    /\ statusLog = <<>>
    /\ cancelPending = NoCancel
    /\ cancelCount = 0
    /\ lastCancel = NoCall
    /\ SpaceInit
    /\ BlobInit
    /\ assignTasks = [w \in Workers |-> <<>>]
    /\ executions = [w \in Workers |-> 0]
    /\ HostInit

\* the replica of peer p holds the Requested marker of worker a
Holds(p, a) == a \in copies[p] \/ (p = a /\ execMarkers[a]["Requested"] # Absent)

\* LiveEvent::InsertLocal { entry } and LiveEvent::InsertRemote { from, entry }
InsertLocal(author, hash) ==
    [local |-> TRUE, from |-> None, author |-> author, exec |-> "Requested", hash |-> hash]
InsertRemote(from, author, hash) ==
    [local |-> FALSE, from |-> from, author |-> author, exec |-> "Requested", hash |-> hash]

\* doc.rs subscribe, lines 99-105, then parse_worker_event: the event that node
\* node_id makes of an insert under the worker prefix
parse_worker_event(node_id, ev) ==
    LET from == IF ev.local THEN node_id ELSE ev.from
    IN ExecutionStatusChanged(from, ev.exec, ev.hash)

\* Worker::handle_event and handle_job_status_change of worker a for the status
\* marker t: the Requested marker is inserted into a's own replica
Worker_request(a, t) ==
    /\ t \in Present(jobMarkers)
    /\ get_execution_status(a) = "Unknown"
    /\ enabled[a] /\ supports_job_type(a, jobType)
    /\ execMarkers' = [execMarkers EXCEPT ![a]["Requested"] = jobMarkers[t]]
    /\ liveEvents' = [liveEvents EXCEPT ![a] = Append(@, InsertLocal(a, jobMarkers[t]))]
    /\ UNCHANGED <<jobMarkers, assignKeys, netVars, schedPending, workerVars, configVars,
                   waiterVars, statusLog, cancelVars>>
    /\ UNCHANGED <<spaceVars, blobVars, taskVars, files, inner, spaces, fresh, lastReg,
                   copies, peerKeys, flowVars>>

\* the document sync: peer p sends peer q the marker of worker a that q lacks
doc_sync(p, q, a) ==
    /\ p # q
    /\ Holds(p, a)
    /\ ~Holds(q, a)
    /\ copies' = [copies EXCEPT ![q] = @ \cup {a}]
    /\ liveEvents' = [liveEvents EXCEPT
                         ![q] = Append(@, InsertRemote(p, a, execMarkers[a]["Requested"]))]
    /\ UNCHANGED <<vmVars, spaceVars, blobVars, taskVars, files, inner, spaces, fresh, lastReg,
                   peerKeys, flowVars>>

\* Scheduler::get_job of node n with no author in its query
Scheduler_markers_AnyAuthor(n) == jobMarkers

\* Scheduler::get_job of node n, lines 259-261: the status markers that n's own
\* author wrote
Scheduler_markers(n) == IF n = SchedulerNode THEN jobMarkers ELSE peerKeys[n].status

\* the keys that handle_worker_execution_status_change of a node other than node 0
\* writes for the decision d
PeerWrite(keys, d) ==
    IF d.op = "assign"
        THEN [keys EXCEPT !.assign[d.worker] = d.hash,
                          !.status[Display(Assigned(d.worker))] = d.hash]
    ELSE IF d.op = "complete"
        THEN [keys EXCEPT !.status[Display(Completed(d.worker))] = d.hash]
    ELSE keys

\* Scheduler::handle_event of node n, EventData::Worker arm, for the oldest insert
\* of its subscription
Scheduler_handle_event(n) ==
    /\ liveEvents[n] # <<>>
    /\ n = SchedulerNode => schedPending = NoPending
    /\ liveEvents' = [liveEvents EXCEPT ![n] = Tail(@)]
    /\ LET e == parse_worker_event(n, Head(liveEvents[n]))
           d == DecideWrite(get_job_status(Scheduler_markers(n)), e)
       IN IF n = SchedulerNode
              THEN schedPending' = d /\ UNCHANGED peerKeys
          ELSE peerKeys' = [peerKeys EXCEPT ![n] = PeerWrite(@, d)] /\ UNCHANGED schedPending
    /\ UNCHANGED <<jobMarkers, assignKeys, execMarkers, netVars, workerVars, configVars,
                   waiterVars, statusLog, cancelVars>>
    /\ UNCHANGED <<spaceVars, blobVars, taskVars, files, inner, spaces, fresh, lastReg,
                   copies, flowVars>>

RelayNext ==
    \/ Subscribe
    \/ run_job
    \/ SchedulerWrite
    \/ \E a \in Workers : \E t \in PeerTokens : Worker_request(a, t)
    \/ \E p \in Peers : \E q \in Peers : \E a \in Workers : doc_sync(p, q, a)
    \/ \E n \in Peers : Scheduler_handle_event(n)

RelaySpec == RelayInit /\ [][RelayNext]_vars

\* ---- a task of a flow (flow.rs Task::run) ----
\* Time is counted in polling intervals of the dependency loop (100 ms).
\* line 257-263: the names of the dependencies are rendered; an error ends the task
Task_run(deps, timeout, rendered) ==
    /\ flow.pc = "new"
    /\ flow' = IF rendered
                   THEN [flow EXCEPT !.pc = "polling", !.deps = deps, !.timeout = timeout]
               ELSE [flow EXCEPT !.pc = "done", !.timeout = timeout, !.output = "Err"]
    /\ UNCHANGED <<vmVars, spaceVars, blobVars, taskVars, files, inner, spaces, fresh, lastReg,
                   relayVars, elapsed, objects>>

\* another task of the flow, or a peer, puts the object named d
Flow_put_object(d) ==
    /\ flow.pc \notin {"new", "done"}
    /\ d \notin objects
    /\ objects' = objects \cup {d}
    /\ UNCHANGED <<vmVars, spaceVars, blobVars, taskVars, files, inner, spaces, fresh, lastReg,
                   relayVars, flow, elapsed>>

\* lines 265-282: one pass of the loop over the dependencies still missing
Task_poll(failed) ==
    /\ flow.pc = "polling"
    /\ LET found_deps == flow.deps \cap objects
           deps == flow.deps \ found_deps
       IN flow' = IF failed /\ flow.deps # {}
                      THEN [flow EXCEPT !.pc = "done", !.output = "Err"]
                  ELSE IF deps = {}
                      THEN [flow EXCEPT !.pc = "running", !.deps = deps,
                                        !.deadline = elapsed + flow.timeout]
                  ELSE [flow EXCEPT !.pc = "sleeping", !.deps = deps]
    /\ UNCHANGED <<vmVars, spaceVars, blobVars, taskVars, files, inner, spaces, fresh, lastReg,
                   relayVars, elapsed, objects>>

\* a polling interval passes: the sleep of line 283 ends; the timer of line 288
\* does not let its deadline pass while the job is awaited
Task_sleep ==
    /\ elapsed < MaxElapsed
    /\ flow.pc \in {"sleeping", "running"}
    /\ flow.pc = "running" => elapsed < flow.deadline
    /\ elapsed' = elapsed + 1
    /\ flow' = IF flow.pc = "sleeping" THEN [flow EXCEPT !.pc = "polling"] ELSE flow
    /\ UNCHANGED <<vmVars, spaceVars, blobVars, taskVars, files, inner, spaces, fresh, lastReg,
                   relayVars, objects>>

\* lines 288-298 and 303-313: run_job_and_wait returns before the deadline
Task_job_returns(failed) ==
    /\ flow.pc = "running"
    /\ flow' = [flow EXCEPT !.pc = "done", !.output = IF failed THEN "Err" ELSE "Ok"]
    /\ UNCHANGED <<vmVars, spaceVars, blobVars, taskVars, files, inner, spaces, fresh, lastReg,
                   relayVars, elapsed, objects>>

\* lines 314-327: the deadline passes first; the job is canceled
Task_timeout ==
    /\ flow.pc = "running"
    /\ elapsed >= flow.deadline
    /\ flow' = [flow EXCEPT !.pc = "done", !.output = "ErrTimeout", !.canceled = TRUE]
    /\ UNCHANGED <<vmVars, spaceVars, blobVars, taskVars, files, inner, spaces, fresh, lastReg,
                   relayVars, elapsed, objects>>

FlowNext ==
    \/ \E deps \in SUBSET DepNames : \E timeout \in TaskTimeouts : \E rendered \in BOOLEAN :
           Task_run(deps, timeout, rendered)
    \/ \E d \in DepNames : Flow_put_object(d)
    \/ \E failed \in BOOLEAN : Task_poll(failed)
    \/ Task_sleep
    \/ \E failed \in BOOLEAN : Task_job_returns(failed)
    \/ Task_timeout

\* the task before Task::run is called
FlowInit == Init /\ jobType = "Wasm"

FlowSpec == FlowInit /\ [][FlowNext]_vars

\* ---- calls on the space ----
\* seconds pass
Tick ==
    /\ clock < MaxTime
    /\ clock' = clock + 1
    /\ UNCHANGED <<events, sync, gossipSent, lastCall, vmVars, blobVars, taskVars, hostVars>>

\* the tail shared by the typed writes: into_mutate_event(author)?.write(db)
Mutated(op, x) ==
    LET event == into_mutate_event(x, LocalAuthor)
        w == write(event, events)
    IN /\ Len(events) < MaxEvents
       /\ events' = w.db
       /\ lastCall' = [op |-> op, result |-> w.result, event |-> event, entity |-> x,
                       dup |-> event.id \in Ids(events), db |-> <<>>,
                       collection |-> NoCollection]
       /\ UNCHANGED <<clock, sync, gossipSent, vmVars, blobVars, taskVars, hostVars>>

\* Users::mutate
Users_mutate(id, v) ==
    Mutated("Users::mutate",
            Entity("User", id, clock, PublicKey(LocalAuthor), HashLink(Hash(v), v), NoHash, v))

\* Programs::mutate
Programs_mutate(id, v) ==
    Mutated("Programs::mutate",
            Entity("Program", id, clock, PublicKey(LocalAuthor), HashLink(Hash(v), None),
                   NoHash, v))

\* Tables::mutate
Tables_mutate(id, v) ==
    Mutated("Tables::mutate",
            Entity("Table", id, clock, PublicKey(LocalAuthor), HashLink(Hash(v), v), NoHash, v))

\* Secrets::set_for_program
set_for_program(program_id, v) ==
    Mutated("Secrets::set_for_program",
            Entity("Secret", program_id, clock, PublicKey(LocalAuthor), HashLink(Hash(v), v),
                   NoHash, v))

\* SpaceEvents::mutate
SpaceEvents_mutate(id, v) ==
    Mutated("SpaceEvents::mutate",
            Entity("SpaceEvent", id, clock, PublicKey(LocalAuthor), HashLink(Hash(v), None),
                   NoHash, v))

\* mutant of mutate_row: the row is written whatever the validator says
mutate_row_Unvalidated(table, id, data) ==
    Mutated("Table::mutate_row",
            Entity("Row", id, clock, PublicKey(LocalAuthor), HashLink(Hash(data), data),
                   Hash(table), None))

\* Table::mutate_row on the table whose schema is `table` (Rows::mutate loads the
\* table and calls it)
mutate_row(table, id, data) ==
    LET row == Entity("Row", id, clock, PublicKey(LocalAuthor), HashLink(Hash(data), data),
                      Hash(table), None)
    IN IF validate(table, data)
           THEN Mutated("Table::mutate_row", row)
       ELSE /\ Len(events) < MaxEvents
            /\ lastCall' = [op |-> "Table::mutate_row", result |-> "validation error",
                            event |-> NoEvent, entity |-> row, dup |-> FALSE, db |-> <<>>,
                       collection |-> NoCollection]
            /\ UNCHANGED <<events, clock, sync, gossipSent, vmVars, blobVars, taskVars, hostVars>>

\* events another author made with Event::create and put in blobs
HonestEvents ==
    {create(RemoteAuthor, t, k, <<Tag(NOSTR_ID_TAG, 1)>>, HashLink(Hash(1), None)) :
        t \in Times, k \in {"MutateProgram", "DeleteProgram"}}

\* the same bytes with a signature that is not one over the id, or with a field
\* changed after signing
BadSig(e) == [e EXCEPT !.sig = sign(e.pubkey, None)]
Tampered(e) == [e EXCEPT !.created_at = e.created_at + 1]

\* what a blob or a gossip message can deserialize to
BlobEvents ==
    HonestEvents
        \cup {BadSig(e) : e \in {h \in HonestEvents : h.kind = "MutateProgram" /\ h.created_at = 1}}
        \cup {Tampered(e) : e \in {h \in HonestEvents : h.kind = "MutateProgram" /\ h.created_at = 1}}

\* Event::write_raw_to_blob of Event::read_raw: the local events, as blobs
StoredEvents == {from_sql_row(events[i]) : i \in 1..Len(events)}

\* Programs::download: Event::ingest_from_blob of the first element of the
\* collection, then Program::from_event
download(event) ==
    LET w == write(event, events)
        program == from_event("Program", event)
    IN /\ Len(events) < MaxEvents
       /\ events' = w.db
       /\ lastCall' = [op |-> "Programs::download",
                       result |-> IF w.result = "ok" /\ program # NoEntity THEN "ok" ELSE "err",
                       event |-> event, entity |-> program,
                       dup |-> event.id \in Ids(events), db |-> <<>>,
                       collection |-> NoCollection]
       /\ UNCHANGED <<clock, sync, gossipSent, vmVars, blobVars, taskVars, hostVars>>

\* the events table of the peer that shares the space
TheirDb ==
    LET fill[n \in 0..MaxTime] ==
            IF n = 0 THEN <<>>
            ELSE write(create(RemoteAuthor, n, "MutateProgram", <<Tag(NOSTR_ID_TAG, 1)>>,
                              HashLink(Hash(1), None)), fill[n - 1]).db
    IN fill

\* Spaces::add_or_sync_from_collection for the space that exists locally:
\* Space::merge_db attaches the exported database and reaches todo!()
add_or_sync_from_collection(n) ==
    /\ lastCall' = [op |-> "Space::merge_db", result |-> "panic", event |-> NoEvent,
                    entity |-> NoEntity, dup |-> FALSE, db |-> TheirDb[n],
                    collection |-> NoCollection]
    /\ UNCHANGED <<events, clock, sync, gossipSent, vmVars, blobVars, taskVars, hostVars>>

\* Space::share: the first user's capabilities, then the export
share ==
    LET first == list(events, "User", 0, 1)
    IN /\ lastCall' = [NoSpaceCall EXCEPT
                          !.op = "Space::share",
                          !.result = IF first = <<>> THEN "no users" ELSE "ok",
                          !.collection = IF first = <<>> THEN NoCollection
                                         ELSE export_space_with_capabilities(events)]
       /\ UNCHANGED <<events, clock, sync, gossipSent, vmVars, blobVars, taskVars, hostVars>>

\* Space::start_sync
start_sync ==
    /\ sync' = TRUE
    /\ lastCall' = [NoSpaceCall EXCEPT !.op = "Space::start_sync",
                                       !.result = IF sync THEN "err" ELSE "ok"]
    /\ UNCHANGED <<events, clock, gossipSent, vmVars, blobVars, taskVars, hostVars>>

\* Sync::broadcast_event_update: the future of sink.send is dropped unpolled, the
\* command never reaches the sink
broadcast_event_update(event) ==
    /\ sync
    /\ gossipSent' = gossipSent
    /\ lastCall' = [NoSpaceCall EXCEPT !.op = "Sync::broadcast_event_update",
                                       !.result = "ok", !.event = event]
    /\ UNCHANGED <<events, clock, sync, vmVars, blobVars, taskVars, hostVars>>

\* the task Sync::start spawns, on GossipEvent::Received: the message is logged
sink_task(event) ==
    /\ sync
    /\ lastCall' = [NoSpaceCall EXCEPT !.op = "GossipEvent::Received",
                                       !.result = "logged", !.event = event]
    /\ UNCHANGED <<events, clock, sync, gossipSent, vmVars, blobVars, taskVars, hostVars>>

SpaceNext ==
    \/ Tick
    \/ \E id \in DataIds : \E v \in Values : Users_mutate(id, v)
    \/ \E id \in DataIds : \E v \in Values : Programs_mutate(id, v)
    \/ \E id \in DataIds : \E v \in Values : Tables_mutate(id, v)
    \/ \E id \in DataIds : \E v \in Values : set_for_program(id, v)
    \/ \E id \in DataIds : \E v \in Values : SpaceEvents_mutate(id, v)
    \/ \E table \in Values : \E id \in DataIds : \E data \in Values : mutate_row(table, id, data)
    \/ \E event \in BlobEvents \cup StoredEvents : download(event)
    \/ \E n \in 1..MaxTime : add_or_sync_from_collection(n)
    \/ share
    \/ start_sync
    \/ \E event \in StoredEvents : broadcast_event_update(event)
    \/ \E event \in BlobEvents : sink_task(event)

\* the space is followed while the workspace is idle
SpaceSpecInit == Init /\ jobType = "Wasm"
SpaceSpec == SpaceSpecInit /\ [][SpaceNext]_vars

\* ---- the workspace of named blobs ----
AutofetchPolicy == {"Disabled", "All"}

\* Workspace::create on the node that makes the document
VM_create(policy) ==
    /\ opened = {}
    /\ opened' = {SchedulerNode}
    /\ autofetch' = [autofetch EXCEPT ![SchedulerNode] = policy]
    /\ UNCHANGED <<store, replica, net, pending, tasks, putPc, puts, vmVars, spaceVars, taskVars, hostVars>>

\* Workspace::join: join_doc imports the ticket and waits for the first sync; the
\* entries synced before doc::subscribe reach the replica without an event, the
\* entries the ticket's node had not seen follow as remote inserts
VM_join(n, policy) ==
    /\ SchedulerNode \in opened
    /\ n \notin opened
    /\ opened' = opened \cup {n}
    /\ autofetch' = [autofetch EXCEPT ![n] = policy]
    /\ replica' = [replica EXCEPT ![n] = replica[SchedulerNode]]
    /\ net' = net \cup {<<n, e>> : e \in UNION {replica[m] : m \in opened} \ replica[SchedulerNode]}
    /\ UNCHANGED <<store, pending, tasks, putPc, puts, vmVars, spaceVars, taskVars, hostVars>>

\* doc.set_hash / doc.set_bytes by node n: the entry is in n's replica, n's own
\* subscription sees InsertLocal and the entry travels to the other open nodes.
\* Only providers/ entries become events Blobs::handle_event acts on.
Written(n, e) ==
    /\ replica' = [replica EXCEPT ![n] = Insert(replica[n], e)]
    /\ net' = net \cup {<<m, e>> : m \in opened \ {n}}
    /\ pending' = IF e.prefix = "providers"
                      THEN [pending EXCEPT ![n] = pending[n] \cup {e}]
                  ELSE pending

\* InsertRemote: an entry reaches another node's replica
Deliver(m, e) ==
    /\ <<m, e>> \in net
    /\ net' = net \ {<<m, e>>}
    /\ replica' = [replica EXCEPT ![m] = Insert(replica[m], e)]
    /\ pending' = IF e.prefix = "providers"
                      THEN [pending EXCEPT ![m] = pending[m] \cup {e}]
                  ELSE pending
    /\ UNCHANGED <<opened, autofetch, store, tasks, putPc, puts, vmVars, spaceVars, taskVars, hostVars>>

\* mutant of put_bytes: the name is mapped to the hash of bytes the node's store
\* was never given
put_bytes_NoStore(n, name, bytes) ==
    /\ n \in opened
    /\ putPc[n].at # "announce"
    /\ puts < MaxPuts
    /\ puts' = puts + 1
    /\ Written(n, object_key(name, n, BlobHash(bytes)))
    /\ putPc' = [putPc EXCEPT ![n] = [name |-> name, hash |-> BlobHash(bytes),
                                      at |-> "announce", result |-> ""]]
    /\ UNCHANGED <<opened, autofetch, store, tasks, vmVars, spaceVars, taskVars, hostVars>>

\* Blobs::put_bytes up to the first write of put_object: add_bytes, then
\* doc.set_hash of blobs/<name>
put_bytes(n, name, bytes) ==
    /\ n \in opened
    /\ putPc[n].at # "announce"
    /\ puts < MaxPuts
    /\ puts' = puts + 1
    /\ store' = [store EXCEPT ![n] = store[n] \cup {BlobHash(bytes)}]
    /\ Written(n, object_key(name, n, BlobHash(bytes)))
    /\ putPc' = [putPc EXCEPT ![n] = [name |-> name, hash |-> BlobHash(bytes),
                                      at |-> "announce", result |-> ""]]
    /\ UNCHANGED <<opened, autofetch, tasks, vmVars, spaceVars, taskVars, hostVars>>

\* mutant of put_object: the name is mapped and the call returns without
\* announcing the node as a provider
put_object_NoAnnounce(n) ==
    /\ putPc[n].at = "announce"
    /\ putPc' = [putPc EXCEPT ![n] = [putPc[n] EXCEPT !.at = "returned", !.result = "ok"]]
    /\ UNCHANGED <<opened, autofetch, store, replica, net, pending, tasks, puts, vmVars, spaceVars, taskVars, hostVars>>

\* Blobs::put_object after set_hash: ContentRouter::announce_provide writes
\* providers/<hash>/<node_id>, then put_bytes returns (hash, size)
put_object(n) ==
    /\ putPc[n].at = "announce"
    /\ Written(n, provider_key(putPc[n].hash, n, n))
    /\ putPc' = [putPc EXCEPT ![n] = [putPc[n] EXCEPT !.at = "returned", !.result = "ok"]]
    /\ UNCHANGED <<opened, autofetch, store, tasks, puts, vmVars, spaceVars, taskVars, hostVars>>

\* mutant of ContentRouter_handle_event: provider additions are not acted on
ContentRouter_handle_event_Ignores(n, e) ==
    /\ e \in pending[n]
    /\ pending' = [pending EXCEPT ![n] = pending[n] \ {e}]
    /\ UNCHANGED <<opened, autofetch, store, replica, net, tasks, putPc, puts, vmVars,
                   spaceVars, taskVars, hostVars>>

\* ContentRouter::handle_event for ProviderAdded { hash, provider }: with
\* AutofetchPolicy::All a task is spawned that fetches from the provider
ContentRouter_handle_event(n, e) ==
    /\ e \in pending[n]
    /\ pending' = [pending EXCEPT ![n] = pending[n] \ {e}]
    /\ tasks' = IF autofetch[n] = "All"
                    THEN [tasks EXCEPT ![n] = tasks[n] \cup {[hash |-> e.hash, provider |-> e.node]}]
                ELSE tasks
    /\ UNCHANGED <<opened, autofetch, store, replica, net, putPc, puts, vmVars, spaceVars, taskVars, hostVars>>

\* the spawned task: fetch_blob_from_provider and, when the download completed,
\* announce_provide for the node itself; a failed download ends the task
AutofetchTask(n, t) ==
    /\ t \in tasks[n]
    /\ tasks' = [tasks EXCEPT ![n] = tasks[n] \ {t}]
    /\ IF fetch_blob_from_provider(n, t.hash, t.provider)
           THEN /\ store' = [store EXCEPT ![n] = store[n] \cup {t.hash}]
                /\ Written(n, provider_key(t.hash, n, n))
       ELSE UNCHANGED <<store, replica, net, pending>>
    /\ UNCHANGED <<opened, autofetch, putPc, puts, vmVars, spaceVars, taskVars, hostVars>>

\* ContentRouter::fetch_blob: nothing to do when the node is among the providers
\* of its replica, otherwise the providers are tried in turn
fetch_blob(n, hash) ==
    LET provs == find_providers(n, hash)
    IN /\ n \in opened
       /\ n \notin provs
       /\ \E p \in provs : fetch_blob_from_provider(n, hash, p)
       /\ hash \notin store[n]
       /\ store' = [store EXCEPT ![n] = store[n] \cup {hash}]
       /\ UNCHANGED <<opened, autofetch, replica, net, pending, tasks, putPc, puts,
                      vmVars, spaceVars, taskVars, hostVars>>

BlobNext ==
    \/ \E policy \in AutofetchPolicy : VM_create(policy)
    \/ \E n \in Workers : \E policy \in AutofetchPolicy : VM_join(n, policy)
    \/ \E n \in Workers : \E name \in Names : \E bytes \in Contents : put_bytes(n, name, bytes)
    \/ \E n \in Workers : put_object(n)
    \/ \E n \in Workers : \E e \in {x[2] : x \in net} : Deliver(n, e)
    \/ \E n \in Workers : \E e \in pending[n] : ContentRouter_handle_event(n, e)
    \/ \E n \in Workers : \E t \in tasks[n] : AutofetchTask(n, t)
    \/ \E n \in Workers : \E hash \in BlobHashes : fetch_blob(n, hash)

\* every call that was made returns, every entry written reaches the other
\* replicas, the event loop handles every event and every spawned task runs
BlobFairness ==
    /\ \A n \in Workers : WF_vars(put_object(n))
    /\ \A n \in Workers : \A e \in Entries :
           /\ WF_vars(Deliver(n, e))
           /\ WF_vars(ContentRouter_handle_event(n, e))
    /\ \A n \in Workers : \A t \in AutofetchTasks : WF_vars(AutofetchTask(n, t))

BlobSpec == SpaceSpecInit /\ [][BlobNext]_vars /\ BlobFairness

\* ---- shared observations ----
Tok(status) == Display(status)
HasMarker(status) == jobMarkers[Tok(status)] # Absent
HasExec(w, k) == execMarkers[w][k] # Absent
AssignedTo == {w \in Workers : assignKeys[w] # Absent}
HasCompletedMarker == \E w \in Workers : HasMarker(Completed(w))
HasCanceledMarker == \E x \in Workers \cup {None} : HasMarker(Canceled(x))

\* every event written has been handled and no handler or task is in progress
Quiescent ==
    /\ inbox0 = <<>>
    /\ \A w \in Workers : chan[w] = <<>> /\ statusTasks[w] = {} /\ running[w] = Absent
    /\ \A n \in Workers \ {SchedulerNode} : pos[n] = Len(schedLog)
    /\ schedPending = NoPending
    /\ cancelPending = NoCancel

\* C1: for the job, at most one worker ever publishes the Completed execution
\* status, whatever the interleaving of status, assignment and worker events.
C1_OneWorkerCompletes ==
    Cardinality({w \in Workers : HasExec(w, "Completed")}) <= 1

\* two workers requested the job and one of them completed it
C1_Witness ==
    \E w, v \in Workers :
        w # v /\ HasExec(w, "Completed") /\ HasExec(v, "Requested") /\ Quiescent

IsMonotonePrefix(log) ==
    \/ log = <<>>
    \/ log = <<Scheduling>>
    \/ \E w \in Workers : log = <<Scheduling, Assigned(w)>>
    \/ \E w \in Workers : log = <<Scheduling, Assigned(w), Completed(w)>>

\* C3: the statuses broadcast to a status-change subscriber of the job form a
\* prefix of scheduling -> assigned(w) -> completed(w) for one worker w, or the
\* sequence ends in a canceled status.
C3_MonotoneSequence ==
    IsMonotonePrefix(statusLog) \/ statusLog[Len(statusLog)].tag = "Canceled"

\* C4: when a canceled or canceled-<w> marker coexists with scheduling and/or
\* assigned markers of the job, the merged status of the job is canceled.
C4_CanceledWins ==
    HasCanceledMarker => get_job_status(jobMarkers).tag = "Canceled"

\* C5: a cancel of a job that already has a completed or canceled marker fails
\* with an error and writes no marker.
C5_CancelClosedFails ==
    lastCancel.closed => lastCancel.result = "err" /\ ~lastCancel.wrote

Orders(S) ==
    {f \in [1..Cardinality(S) -> S] : \A i, j \in 1..Cardinality(S) : f[i] = f[j] => i = j}

C9_LosersSkip ==
    Quiescent =>
        \A v \in AssignedTo : \A w \in Workers \ {v} :
            HasExec(w, "Requested") => HasExec(w, "Skipped")

Received == SubSeq(statusLog, 1, waiterPos)

\* C6: run_job_and_wait subscribes before the job is written; it is not left
\* waiting once it has received completed(w) for the assigned worker w, and then it
\* returns the result stored in the blob of the completed-<w> marker.
C6_WaitReturnsOnCompleted ==
    /\ Len(schedLog) > 0 => waiterPc \in {"waiting", "done"}
    /\ waiterPc = "waiting" => \A i \in 1..waiterPos : Received[i].tag # "Completed"
    /\ \A w \in Workers :
           (waiterPc = "done" /\ waiterPos > 0 /\ Received[waiterPos] = Completed(w)) =>
               /\ w \in AssignedTo
               /\ waiterResult = jobMarkers[Tok(Completed(w))]
               /\ waiterResult = execMarkers[w]["Completed"]
               /\ waiterResult.status \in {"Ok", "Err", "ErrTimeout"}
    /\ (HasCompletedMarker /\ inbox0 = <<>> /\ waiterPos = Len(statusLog)) => waiterPc = "done"

\* the waiter returned the result of a completed job
C6_Witness ==
    /\ waiterPc = "done"
    /\ waiterPos = 3
    /\ Received[3].tag = "Completed"
    /\ waiterResult.status = "Ok"

Unable(w) == ~enabled[w] \/ ~supports_job_type(w, jobType)

MutateOps ==
    {"Users::mutate", "Programs::mutate", "Tables::mutate", "Secrets::set_for_program",
     "SpaceEvents::mutate", "Table::mutate_row"}

\* latest_of of the specification: the row of the kind and data id with the
\* greatest created_at, the greater id among equals
latest_of(db, k, id) ==
    LET rows == OfKindAndId(db, k, id)
    IN rows[CHOOSE i \in 1..Len(rows) : \A j \in 1..Len(rows) :
                \/ rows[j].created_at < rows[i].created_at
                \/ rows[j].created_at = rows[i].created_at /\ rows[j].id <= rows[i].id]

\* the Delete* kind that ends the entities a Mutate* kind writes
DeleteKind(k) ==
    CASE k = "MutateUser" -> "DeleteUser"
      [] k = "MutateProgram" -> "DeleteProgram"
      [] k = "MutateTable" -> "DeleteSchema"

\* the latest event of the entity is a Delete* event
Deleted(db, k, id) ==
    /\ OfKindAndId(db, DeleteKind(k), id) # <<>>
    /\ \/ OfKindAndId(db, k, id) = <<>>
       \/ latest_of(db, k, id).created_at < latest_of(db, DeleteKind(k), id).created_at

\* what is compared of an entity: everything but created_at and id
Core(x) == [x EXCEPT !.created_at = 0, !.id = None]

\* C11: ingesting an event whose id the store already holds succeeds and leaves
\* the store as it was.
C11_DuplicateIngestSucceeds ==
    lastCall.dup => lastCall.result = "ok"

\* C12: every event in the store verifies: its id is the id recomputed from its
\* fields and its sig is a signature of that id under its pubkey.
C12_StoredEventsVerify ==
    \A i \in 1..Len(events) : verify(from_sql_row(events[i])) = "ok"

\* C13: a typed read by id (Programs::get_by_id, Secrets::for_program_id) returns
\* the projection of the latest event of the kind and data id: no stored event of
\* that kind and data id has a greater created_at than the one returned.
C13_LatestWins ==
    \A id \in DataIds :
        /\ OfKindAndId(events, "MutateProgram", id) # <<>> =>
               get_by_id(events, id).created_at =
                   latest_of(events, "MutateProgram", id).created_at
        /\ OfKindAndId(events, "MutateSecret", id) # <<>> =>
               \A secret \in for_program_id(events, id) :
                   secret.created_at = latest_of(events, "MutateSecret", id).created_at

\* C14: after an entity was mutated more than once, the list of its kind holds
\* exactly one entry for its data id, built from its latest event.
C14_ListLatestPerId ==
    \A type \in {"User", "Table", "Program"} : \A id \in DataIds :
        LET l == list(events, type, 0, 0 - 1)
        IN Len(OfKindAndId(events, MutateKind(type), id)) > 1 =>
               /\ Cardinality({i \in 1..Len(l) : l[i].id = id}) = 1
               /\ \A i \in 1..Len(l) :
                      l[i].id = id =>
                          l[i] = from_event(type, from_sql_row(latest_of(events, MutateKind(type), id)))

\* C15: when the latest event of an entity is a Delete* event, the typed read by
\* id and the typed list do not return the entity.
C15_DeletedIsAbsent ==
    \A id \in DataIds :
        /\ Deleted(events, "MutateProgram", id) => get_by_id(events, id) = NoEntity
        /\ \A type \in {"User", "Table", "Program"} :
               Deleted(events, MutateKind(type), id) =>
                   LET l == list(events, type, 0, 0 - 1)
                   IN \A i \in 1..Len(l) : l[i].id # id

C17_RoundTrip ==
    (lastCall.op \in MutateOps /\ lastCall.event # NoEvent) =>
        Core(from_event(lastCall.entity.type, lastCall.event)) = Core(lastCall.entity)

\* C18: every event made by signing has the id computed from
\* (0, pubkey, created_at, kind, tags, content hash) and a sig that verifies that
\* id under its pubkey: verify is ok, also for the event read back from the store.
C18_SignedEventsVerify ==
    (lastCall.op \in MutateOps /\ lastCall.event # NoEvent) =>
        LET e == lastCall.event
        IN /\ e.id = Sha256Digest(<<0, e.pubkey, e.created_at, KindNumber(e.kind), e.tags,
                                    e.content.hash>>)
           /\ e.sig.signer = e.pubkey /\ e.sig.msg = e.id
           /\ verify(e) = "ok"
           /\ lastCall.result = "ok" => verify(from_sql_row(events[Len(events)])) = "ok"

\* a row event, which carries a sch and an id tag, was signed and stored
C18_Witness ==
    /\ lastCall.op = "Table::mutate_row"
    /\ lastCall.result = "ok"
    /\ Len(lastCall.event.tags) = 2
    /\ events[Len(events)].id = lastCall.event.id

\* C19: importing a ticket for a space that exists locally completes, and then the
\* store holds every event of the remote snapshot.
C19_MergeCompletes ==
    lastCall.op = "Space::merge_db" =>
        /\ lastCall.result = "ok"
        /\ Ids(lastCall.db) \subseteq Ids(events)

\* C20: with sync started, an event written locally is handed to the gossip sink,
\* and a verified event received from a neighbour is in the store once the
\* receiving task has handled the message.
C20_GossipIngests ==
    /\ (sync /\ lastCall.op \in MutateOps /\ lastCall.result = "ok") =>
           \E i \in 1..Len(gossipSent) : gossipSent[i] = lastCall.event
    /\ (lastCall.op = "GossipEvent::Received" /\ verify(lastCall.event) = "ok"
            /\ Len(events) < MaxEvents) =>
           lastCall.event.id \in Ids(events)

\* the secret values set with Secrets::set_for_program that the store holds
SecretHashes(db) == {db[i].content : i \in {j \in 1..Len(db) : db[j].kind = "MutateSecret"}}

Announced(hash) == UNION {find_providers(n, hash) : n \in Workers}

\* blobs/<name> maps to the hash in some replica
Mapped(hash) == \E n \in Workers : \E name \in Names : hash \in get_object_info(n, name)

\* C22: if blobs/<name> maps to hash h in the document, then eventually some node
\* that is announced under providers/<h>/ holds the content of h.
C22_ProviderConsistency ==
    \A hash \in BlobHashes :
        Mapped(hash) ~> (\E p \in Announced(hash) : hash \in store[p])

\* C23: whenever put_bytes has returned successfully on a node, the node's store
\* holds the bytes, blobs/<name> maps to their hash and the key
\* providers/<hash>/<own node id> is in the node's replica of the document.
C23_PutBytesAnnounces ==
    \A n \in Workers :
        (putPc[n].at = "returned" /\ putPc[n].result = "ok") =>
            /\ putPc[n].hash \in store[n]
            /\ putPc[n].hash \in get_object_info(n, putPc[n].name)
            /\ n \in find_providers(n, putPc[n].hash)

\* put_bytes returned on a node
C23_Witness ==
    \E n \in Workers : putPc[n].at = "returned" /\ putPc[n].result = "ok"

\* C24: when the announcement of a blob by one node is on its way to a joined node
\* whose policy is AutofetchPolicy::All, then eventually the joined node holds the
\* blob and the announcing node's find_providers gives both nodes.
C24_AutofetchAnnounces ==
    \A a \in Workers : \A b \in Workers \ {a} : \A hash \in BlobHashes :
        (autofetch[b] = "All" /\ <<b, provider_key(hash, a, a)>> \in net)
            ~> (hash \in store[b] /\ {a, b} \subseteq find_providers(a, hash))

\* a node with AutofetchPolicy::All fetched a blob another node put and both are
\* announced in the putting node's replica
C24_Witness ==
    \E a \in Workers : \E b \in Workers \ {a} : \E hash \in BlobHashes :
        /\ autofetch[b] = "All" /\ autofetch[a] = "Disabled"
        /\ putPc[a].at = "returned" /\ putPc[b].at = "idle"
        /\ hash \in store[b]
        /\ {a, b} \subseteq find_providers(a, hash)

\* a name is mapped and its provider announced and holding the content
C22_Witness ==
    \E hash \in BlobHashes :
        /\ Mapped(hash)
        /\ \E p \in Announced(hash) : hash \in store[p]
        /\ \E n \in Workers : hash \notin store[n] /\ hash \in UNION {get_object_info(n, name) : name \in Names}

\* ---- observations on the worker's execution status ----
\* the place of an execution status in Unknown -> Requested -> {Running, Skipped}
\* -> Completed
Progress(k) ==
    CASE k = "Unknown" -> 0
      [] k = "Requested" -> 1
      [] k \in {"Running", "Skipped"} -> 2
      [] k = "Completed" -> 3

C26_ExecutesAtMostOnce == \A n \in Workers : executions[n] <= 1

\* C27: a task handling the worker's own assignment that read an execution
\* status other than Requested writes no marker, starts no execution and returns.
C27_NotRequestedDoesNothing ==
    [][\A n \in Workers : \A t \in TaskIds(n) :
           LET task == assignTasks[n][t]
           IN (task.worker = n /\ task.pc = "read" /\ task.status # "Requested"
                   /\ assignTasks'[n][t] # task)
                  => /\ execMarkers'[n] = execMarkers[n]
                     /\ executions'[n] = executions[n]
                     /\ chan' = chan /\ inbox0' = inbox0
                     /\ assignTasks'[n][t].pc \in {"returned", "done"}]_vars

C27_Witness ==
    \E n \in Workers : \E t \in TaskIds(n) :
        /\ assignTasks[n][t].worker = n
        /\ assignTasks[n][t].status = "Completed"
        /\ assignTasks[n][t].pc = "done"
        /\ executions[n] = 1

\* ---- observations on the scheduler's handling of Completed marks ----
\* C28: the scheduler decides to write a completed marker only for a Completed
\* mark of the worker the job is assigned to, and never while the job is still
\* scheduling or has a canceled marker.
C28_CompletedOnlyFromAssigned ==
    [][(schedPending = NoPending /\ schedPending'.op = "complete") =>
           /\ HasMarker(Assigned(schedPending'.worker))
           /\ schedPending'.worker \in AssignedTo
           /\ ~HasCanceledMarker]_vars

\* ---- observations on the worker's timeout ----
\* the step in which worker w leaves its execution of the job with the timeout elapsed
TimedOutStep(w) == running[w] # Absent /\ running'[w] = Absent /\ timedOut'[w]

\* C29 as stated: when the timeout elapses the worker produces the ErrTimeout
\* result and also calls the scheduler's cancel for the job.
C29_TimeoutCallsCancel ==
    [][\A w \in Workers : TimedOutStep(w) =>
           /\ execMarkers'[w]["Completed"] = JobResult(w, "ErrTimeout")
           /\ <<cancelPending, cancelCount, lastCancel>>' # <<cancelPending, cancelCount, lastCancel>>]_vars

\* C29 as amended: when the timeout elapses the worker produces the ErrTimeout
\* result and publishes Completed with it; it makes no call of the scheduler's
\* cancel and writes no marker of the scheduler.
C29_TimeoutOnlyPublishes ==
    [][\A w \in Workers : TimedOutStep(w) =>
           /\ execMarkers'[w]["Completed"] = JobResult(w, "ErrTimeout")
           /\ <<cancelPending, cancelCount, lastCancel>>' = <<cancelPending, cancelCount, lastCancel>>
           /\ jobMarkers' = jobMarkers]_vars

\* a worker's execution timed out and cancel_job was never called for the job
C29_Witness ==
    \E w \in Workers :
        /\ timedOut[w]
        /\ execMarkers[w]["Completed"] = JobResult(w, "ErrTimeout")
        /\ cancelCount = 0
        /\ ~HasCanceledMarker

\* ---- observations on the result of a completed job ----
\* C30: once the job's status is completed(w), get_job_result gives the blob that
\* worker w wrote with its result and published with Completed, never the blob
\* with the initial Unknown result.
C30_CompletedHasWorkerResult ==
    LET job == get_job(jobMarkers)
    IN \A w \in Workers :
           job.status = Completed(w) =>
               /\ job.hash.worker = w
               /\ job.hash.status \in JobResultStatus \ {"Unknown"}
               /\ HasExec(w, "Completed")

\* a completed job whose worker's execution failed, read while a canceled marker exists
C30_Witness ==
    \E w \in Workers :
        /\ get_job(jobMarkers) = [status |-> Completed(w), hash |-> JobResult(w, "Err")]
        /\ HasCanceledMarker

\* ---- observations on failed executions ----
\* C31: whatever way the execution of the assigned job fails, the worker
\* publishes Completed: once its tasks have ended, a job it marked Running does
\* not stay in Running.
C31_FailureCompletes ==
    \A n \in Workers :
        (HasExec(n, "Running") /\ \A t \in TaskIds(n) : assignTasks[n][t].pc = "done")
            => HasExec(n, "Completed")

\* ---- observations on the files of Accounts and Spaces ----
\* C32: after create_account (Spaces::create) has returned, the accounts file
\* (the spaces file) holds every entry it held before the call and the new one.
C32_CreateKeepsEntries ==
    /\ lastReg.op = "Accounts::create_account" =>
           lastReg.before \cup {lastReg.entry}
               \subseteq Range(InnerAccounts_read_from_file(inner.file_path).accounts)
    /\ lastReg.op = "Spaces::create" =>
           lastReg.before \cup {lastReg.entry} \subseteq Range(Spaces_read_from_file(spaces.path))

\* C40: Accounts::current returns None, and does not fail, whenever the current
\* index addresses no account; otherwise it returns the account.
C40_CurrentNoneWhenAbsent ==
    lastReg.op = "Accounts::current" =>
        lastReg.result = (IF inner.current + 1 \in DOMAIN inner.accounts THEN "Some" ELSE "None")

\* ---- observations on the job's directories ----
\* C33: after the job completed on a worker, with any result, its downloads/
\* and uploads/ directories do not exist on that worker.
C33_DirectoriesRemoved ==
    \A n \in Workers :
        (HasExec(n, "Completed") /\ \A t \in TaskIds(n) : assignTasks[n][t].pc = "done") =>
            /\ ~exists(downloads_path(wasm_root(n)))
            /\ ~exists(uploads_path(wasm_root(n)))

\* ---- observations on relayed worker markers ----
\* C34: an assignment key jobs/assign/<id>/<w> exists only for a worker w that
\* itself published the Requested marker, also when the marker reached the
\* scheduling node through a third peer.
C34_AssignedWorkerRequested ==
    \A w \in Peers :
        assignKeys[w] # Absent => (w \in Workers /\ execMarkers[w]["Requested"] # Absent)

\* C37: the scheduler of a node other than the scheduling node writes no
\* assignment key and no status marker when it handles a worker marker.
C37_OtherSchedulersWriteNothing ==
    \A n \in Peers \ {SchedulerNode} : peerKeys[n] = NoKeys

\* a node other than node 0 has handled the Requested marker of another worker
\* while the job awaited a worker
C37_Witness ==
    \E n \in Peers \ {SchedulerNode} : \E a \in Workers \ {n} :
        /\ a \in copies[n]
        /\ liveEvents[n] = <<>>
        /\ get_job_status(jobMarkers) = Scheduling
        /\ peerKeys[n] = NoKeys

\* ---- observations on what a worker requests ----
\* C36: a worker publishes Requested only in reaction to the scheduling marker
\* of the job, so its Requested marker refers to the blob the scheduling marker
\* refers to, never to that of an assigned, completed or canceled marker.
C36_RequestedOnlyOnScheduling ==
    \A w \in Workers :
        execMarkers[w]["Requested"] \in {Absent, jobMarkers[Display(Scheduling)]}

\* ---- observations on a canceled job ----
\* C35: once cancel_job has written a canceled marker of the job, the scheduler
\* writes no completed marker of it any more, whatever the assigned worker
\* publishes later.
C35_NoCompletedAfterCancel ==
    [][HasCanceledMarker =>
           \A w \in Workers :
               jobMarkers'[Display(Completed(w))] = jobMarkers[Display(Completed(w))]]_vars

\* ---- observations on the tasks of a flow ----
\* C39: a task of a flow yields its output within a time bounded by its
\* timeout; in particular its wait for download dependencies that do not become
\* available does not outlast the timeout.
C39_WaitBoundedByTimeout ==
    flow.pc \in {"polling", "sleeping"} => elapsed <= flow.timeout

\* ---- observations on provider announcements ----
\* C38: under AutofetchPolicy::All the provider announcements of a hash come to
\* rest: from some point on no node has a provider event to handle or an
\* autofetch task to run, so no node keeps fetching and announcing again.
C38_AnnouncementsQuiesce ==
    <>[](\A n \in Workers : pending[n] = {} /\ tasks[n] = {})
====
